---- MODULE Spec2Model ----
(***************************************************************************)
(* llode: the streaming tool-call protocol engine of src/llode.py.         *)
(*                                                                         *)
(* Text is a sequence of one-character strings.  Positions handed to and   *)
(* returned by Find are 0-based, as Python's str.find, so the operators    *)
(* read like the source.                                                   *)
(***************************************************************************)
EXTENDS Integers, Sequences, FiniteSets, TLC

VARIABLES
    text,           \* parser run: the whole input that is being fed
    pos,            \* parser run: number of characters of text fed so far
    nfeeds,         \* parser run: number of feed calls made
    events,         \* parser run: the results of all feed calls, in order
    flushed,        \* parser run: flush has been called
    remaining,      \* parser run: the value flush returned
    buffer,         \* MIMEToolCallParser.buffer
    in_tool,        \* MIMEToolCallParser.in_tool
    nesting_depth,  \* MIMEToolCallParser.nesting_depth
    call,           \* the call a producer encodes: [bid, has_name, tool_name, params]
    decoded,        \* <<>>, or <<r>> with r what parse_mime_tool_call did with the block
    planning_mode,  \* main: planning_mode
    last_dispatch,  \* <<>>, or <<r>> with r the outcome of the last execute_tool call
    invoked,        \* the handler calls made so far: [tool_name, planning_mode, wrote]
    messages,       \* main: messages, the conversation log
    pc,             \* where the session is: "prompt", "request", "stream", "results"
    step,           \* the operation that led to this state
    inputs,         \* user inputs taken so far
    requests,       \* completion requests issued for the current user input
    toolTurns,      \* responses of the current user input that ended with tool outputs
    nlines,         \* stream_response: lines of the responses read so far
    full_response,  \* stream_response: full_response
    tool_outputs,   \* stream_response: tool_outputs, pairs <<tool_content, tool_result>>
    results,        \* stream_response: what is left of the results of the last feed
    arg,            \* a tool function under test: the arguments it is called with
    ret,            \* <<>>, or <<r>> with r what the call returned or raised
    disk,           \* the files of the project
    db              \* CodeIndexer: the rows of the index database

vars == <<text, pos, nfeeds, events, flushed, remaining,
          buffer, in_tool, nesting_depth,
          call, decoded, planning_mode, last_dispatch, invoked,
          messages, pc, step, inputs, requests, toolTurns,
          nlines, full_response, tool_outputs, results,
          arg, ret, disk, db>>

toolVars == <<arg, ret, disk, db>>
parserVars == <<buffer, in_tool, nesting_depth>>
runVars == <<text, pos, nfeeds, events, flushed, remaining>>
callVars == <<call, decoded>>
dispatchVars == <<planning_mode, last_dispatch, invoked>>
sessionVars == <<messages, pc, step, inputs, requests, toolTurns,
                 nlines, full_response, tool_outputs, results>>

----------------------------------------------------------------------------
(* Bounds *)

MaxPieces == 3      \* pieces a general input text is made of
MaxNestPieces == 7  \* markers a marker-only input text is made of
MaxOncePieces == 5  \* pieces a text fed in one call is made of
MaxChunks == 2      \* feed calls a general text is split into
MaxNestChunks == 2  \* feed calls a marker-only text is split into
MaxValueLen == 2    \* characters of a parameter value
MaxInputs == 2      \* user inputs of a session
MaxRequests == 2    \* completion requests of a session that may answer with tool calls
MaxLines == 2       \* lines read from the responses of a session
MaxExampleChunks == 2  \* content deltas a response with an example comes in
MaxPathSegs == 3    \* segments of a path argument
MaxFileLen == 3     \* characters of the file that file_edit works on
MaxMtime == 3       \* modification times of a file of the project
MaxInterior == 2    \* whitespace characters inside a parameter value

----------------------------------------------------------------------------
(* Strings *)

None == <<>>   \* Python None; only ever tested for truthiness, like ""

Min(S) == CHOOSE x \in S : \A y \in S : x <= y

\* F(v), with v evaluated once: a local variable that is assigned and then read
Once(v, F(_)) == CHOOSE y \in {F(x) : x \in {v}} : TRUE

\* s[i:] and s[:i] for 0 <= i <= len(s)
From(s, i) == SubSeq(s, i + 1, Len(s))
Upto(s, i) == SubSeq(s, 1, i)

\* s[i:j]
Slice(s, i, j) == SubSeq(s, i + 1, j)

MatchAt(s, pat, i) ==
    /\ i + Len(pat) <= Len(s)
    /\ \A k \in 1..Len(pat) : s[i + k] = pat[k]

\* str.find(pat, start): the lowest index >= start where pat occurs, or -1
Find(s, pat, start) ==
    LET hits == {i \in start..(Len(s) - Len(pat)) : MatchAt(s, pat, i)}
    IN  IF hits = {} THEN -1 ELSE Min(hits)

StartsWith(s, pat) == MatchAt(s, pat, 0)

EndsWith(s, pat) == Len(pat) <= Len(s) /\ MatchAt(s, pat, Len(s) - Len(pat))

\* the characters str.strip() removes, among those of the model's alphabet
Whitespace == {" ", "\t", "\n", "\r"}

RECURSIVE LStrip(_)
LStrip(s) == IF s # <<>> /\ Head(s) \in Whitespace THEN LStrip(Tail(s)) ELSE s

RECURSIVE RStrip(_)
RStrip(s) ==
    IF s # <<>> /\ s[Len(s)] \in Whitespace THEN RStrip(Upto(s, Len(s) - 1)) ELSE s

\* str.strip()
Strip(s) == RStrip(LStrip(s))

\* str.split('\n')
RECURSIVE Split(_)
Split(s) ==
    LET nl == Find(s, <<"\n">>, 0)
    IN  IF nl = -1 THEN <<s>> ELSE <<Upto(s, nl)>> \o Split(From(s, nl + 1))

\* '\n'.join(lines)
RECURSIVE Join(_)
Join(lines) ==
    IF lines = <<>> THEN <<>>
    ELSE IF Len(lines) = 1 THEN lines[1]
    ELSE lines[1] \o <<"\n">> \o Join(Tail(lines))

RECURSIVE SetToSeq(_)
SetToSeq(S) ==
    IF S = {} THEN <<>>
    ELSE LET x == CHOOSE y \in S : TRUE IN <<x>> \o SetToSeq(S \ {x})

RECURSIVE Flatten(_)
Flatten(ss) == IF ss = <<>> THEN <<>> ELSE Head(ss) \o Flatten(Tail(ss))

\* all sequences over S of length at most n
RECURSIVE SeqsUpTo(_, _)
SeqsUpTo(S, n) ==
    IF n = 0 THEN {<<>>}
    ELSE LET shorter == SeqsUpTo(S, n - 1)
         IN  shorter \cup {Append(s, x) : s \in shorter, x \in S}

----------------------------------------------------------------------------
(* MIMEToolCallParser *)

TOOL_BEGIN == <<"-","-","T","O","O","L","_","C","A","L","L","_","B","E","G","I","N">>
TOOL_END == <<"-","-","T","O","O","L","_","C","A","L","L","_","E","N","D">>

\* MIMEToolCallParser.__init__
ParserInit == [buffer |-> <<>>, in_tool |-> FALSE, nesting_depth |-> 0]

\* ScanTool without nesting: the block closes at the first end marker
ScanTool_FirstEnd(buf, depth, search_start) ==
    LET next_end == Find(buf, TOOL_END, search_start)
    IN  IF next_end = -1
        THEN [closed |-> FALSE, depth |-> depth, end_pos |-> -1]
        ELSE [closed |-> TRUE, depth |-> 0, end_pos |-> next_end + Len(TOOL_END)]

\* ScanTool without the test of nesting_depth against 0: the block closes at
\* the first end marker that is 'found', whatever the depth then is
RECURSIVE ScanTool_NoDepthTest(_, _, _)
ScanTool_NoDepthTest(buf, depth, search_start) ==
    LET next_begin == Find(buf, TOOL_BEGIN, search_start)
        next_end == Find(buf, TOOL_END, search_start)
    IN  IF next_end = -1
        THEN [closed |-> FALSE, depth |-> depth, end_pos |-> -1]
        ELSE IF next_begin # -1 /\ next_begin < next_end
        THEN ScanTool_NoDepthTest(buf, depth + 1, next_begin + Len(TOOL_BEGIN))
        ELSE [closed |-> TRUE, depth |-> depth - 1, end_pos |-> next_end + Len(TOOL_END)]

\* The inner while loop of feed: scan the open block from search_start.
\* Returns the depth reached and, when the block closed, end_pos.
RECURSIVE ScanTool(_, _, _)
ScanTool(buf, depth, search_start) ==
    LET next_begin == Find(buf, TOOL_BEGIN, search_start)
        next_end == Find(buf, TOOL_END, search_start)
    IN  IF next_end = -1
        THEN [closed |-> FALSE, depth |-> depth, end_pos |-> -1]
        ELSE IF next_begin # -1 /\ next_begin < next_end
        THEN ScanTool(buf, depth + 1, next_begin + Len(TOOL_BEGIN))
        ELSE IF depth - 1 = 0
        THEN [closed |-> TRUE, depth |-> 0, end_pos |-> next_end + Len(TOOL_END)]
        ELSE ScanTool(buf, depth - 1, next_end + Len(TOOL_END))

\* FeedLoop_NoRetain that keeps nothing back when it finds no begin marker: the whole
\* buffer goes out as plain text
RECURSIVE FeedLoop_NoRetain(_, _)
FeedLoop_NoRetain(p, found) ==
    IF ~p.in_tool
    THEN LET begin_idx == Find(p.buffer, TOOL_BEGIN, 0)
         IN  IF begin_idx # -1
             THEN LET preceding == Upto(p.buffer, begin_idx)
                      q == [buffer |-> From(p.buffer, begin_idx),
                            in_tool |-> TRUE, nesting_depth |-> 1]
                  IN  FeedLoop_NoRetain(q, IF preceding # <<>>
                                  THEN Append(found, [tool_content |-> None, text |-> preceding])
                                  ELSE found)
             ELSE IF Len(p.buffer) > 0
                  THEN [state |-> [p EXCEPT !.buffer = <<>>],
                        results |-> Append(found, [tool_content |-> None, text |-> p.buffer])]
                  ELSE [state |-> p, results |-> found]
    ELSE LET scan == ScanTool(p.buffer, p.nesting_depth, Len(TOOL_BEGIN))
         IN  IF scan.closed
             THEN FeedLoop_NoRetain([buffer |-> From(p.buffer, scan.end_pos),
                            in_tool |-> FALSE, nesting_depth |-> scan.depth],
                           Append(found, [tool_content |-> Upto(p.buffer, scan.end_pos),
                                            text |-> <<>>]))
             ELSE [state |-> [p EXCEPT !.nesting_depth = scan.depth], results |-> found]

\* FeedLoop_StopAfterBlock that leaves the loop when a block closes, instead of going on
\* with the rest of the buffer
RECURSIVE FeedLoop_StopAfterBlock(_, _)
FeedLoop_StopAfterBlock(p, found) ==
    IF ~p.in_tool
    THEN LET begin_idx == Find(p.buffer, TOOL_BEGIN, 0)
         IN  IF begin_idx # -1
             THEN LET preceding == Upto(p.buffer, begin_idx)
                      q == [buffer |-> From(p.buffer, begin_idx),
                            in_tool |-> TRUE, nesting_depth |-> 1]
                  IN  FeedLoop_StopAfterBlock(q, IF preceding # <<>>
                                  THEN Append(found, [tool_content |-> None, text |-> preceding])
                                  ELSE found)
             ELSE LET marker_len == Len(TOOL_BEGIN)
                  IN  IF Len(p.buffer) > marker_len
                      THEN [state |-> [p EXCEPT !.buffer = From(p.buffer, Len(p.buffer) - marker_len)],
                            results |-> Append(found,
                                [tool_content |-> None,
                                 text |-> Upto(p.buffer, Len(p.buffer) - marker_len)])]
                      ELSE [state |-> p, results |-> found]
    ELSE LET scan == ScanTool(p.buffer, p.nesting_depth, Len(TOOL_BEGIN))
         IN  IF scan.closed
             THEN [state |-> [buffer |-> From(p.buffer, scan.end_pos),
                              in_tool |-> FALSE, nesting_depth |-> scan.depth],
                   results |-> Append(found, [tool_content |-> Upto(p.buffer, scan.end_pos),
                                                text |-> <<>>])]
             ELSE [state |-> [p EXCEPT !.nesting_depth = scan.depth], results |-> found]

\* The outer while loop of feed, from the state p with results so far.
RECURSIVE FeedLoop(_, _)
FeedLoop(p, found) ==
    IF ~p.in_tool
    THEN LET begin_idx == Find(p.buffer, TOOL_BEGIN, 0)
         IN  IF begin_idx # -1
             THEN LET preceding == Upto(p.buffer, begin_idx)
                      q == [buffer |-> From(p.buffer, begin_idx),
                            in_tool |-> TRUE, nesting_depth |-> 1]
                  IN  FeedLoop(q, IF preceding # <<>>
                                  THEN Append(found, [tool_content |-> None, text |-> preceding])
                                  ELSE found)
             ELSE LET marker_len == Len(TOOL_BEGIN)
                  IN  IF Len(p.buffer) > marker_len
                      THEN [state |-> [p EXCEPT !.buffer = From(p.buffer, Len(p.buffer) - marker_len)],
                            results |-> Append(found,
                                [tool_content |-> None,
                                 text |-> Upto(p.buffer, Len(p.buffer) - marker_len)])]
                      ELSE [state |-> p, results |-> found]
    ELSE LET scan == ScanTool(p.buffer, p.nesting_depth, Len(TOOL_BEGIN))
         IN  IF scan.closed
             THEN FeedLoop([buffer |-> From(p.buffer, scan.end_pos),
                            in_tool |-> FALSE, nesting_depth |-> scan.depth],
                           Append(found, [tool_content |-> Upto(p.buffer, scan.end_pos),
                                            text |-> <<>>]))
             ELSE [state |-> [p EXCEPT !.nesting_depth = scan.depth], results |-> found]

\* feed that sets the buffer to the chunk instead of adding the chunk to it
Feed_ReplaceBuffer(p, chunk) == FeedLoop([p EXCEPT !.buffer = chunk], <<>>)

\* MIMEToolCallParser.feed
Feed(p, chunk) == FeedLoop([p EXCEPT !.buffer = p.buffer \o chunk], <<>>)

\* FeedStep whose inner loop goes on from the nested begin marker itself
\* instead of from behind it
FeedStep_NoAdvance(s) ==
    IF s.at = "outer"
    THEN IF ~s.p.in_tool
         THEN LET begin_idx == Find(s.p.buffer, TOOL_BEGIN, 0)
              IN  IF begin_idx # -1
                  THEN LET preceding == Upto(s.p.buffer, begin_idx)
                       IN  [s EXCEPT !.p = [buffer |-> From(s.p.buffer, begin_idx),
                                            in_tool |-> TRUE, nesting_depth |-> 1],
                                     !.found = IF preceding # <<>>
                                               THEN Append(s.found, [tool_content |-> None,
                                                                     text |-> preceding])
                                               ELSE s.found]
                  ELSE LET marker_len == Len(TOOL_BEGIN)
                       IN  IF Len(s.p.buffer) > marker_len
                           THEN [s EXCEPT !.p.buffer = From(s.p.buffer, Len(s.p.buffer) - marker_len),
                                          !.found = Append(s.found,
                                              [tool_content |-> None,
                                               text |-> Upto(s.p.buffer, Len(s.p.buffer) - marker_len)]),
                                          !.at = "return"]
                           ELSE [s EXCEPT !.at = "return"]
         ELSE [s EXCEPT !.at = "inner", !.search_start = Len(TOOL_BEGIN)]
    ELSE IF s.at = "inner"
    THEN LET next_begin == Find(s.p.buffer, TOOL_BEGIN, s.search_start)
             next_end == Find(s.p.buffer, TOOL_END, s.search_start)
         IN  IF next_end = -1
             THEN [s EXCEPT !.at = "return"]
             ELSE IF next_begin # -1 /\ next_begin < next_end
             THEN [s EXCEPT !.p.nesting_depth = s.p.nesting_depth + 1,
                            !.search_start = next_begin]
             ELSE IF s.p.nesting_depth - 1 = 0
             THEN LET end_pos == next_end + Len(TOOL_END)
                  IN  [s EXCEPT !.p = [buffer |-> From(s.p.buffer, end_pos),
                                       in_tool |-> FALSE, nesting_depth |-> 0],
                                !.found = Append(s.found,
                                    [tool_content |-> Upto(s.p.buffer, end_pos), text |-> <<>>]),
                                !.at = "outer"]
             ELSE [s EXCEPT !.p.nesting_depth = s.p.nesting_depth - 1,
                            !.search_start = next_end + Len(TOOL_END)]
    ELSE s

\* One iteration of the loops of feed. s.at is the place of control: at the
\* head of the outer loop, at the head of the inner loop, or at the return;
\* s.p is the parser, s.found the local results, s.search_start the local of
\* the inner loop.
FeedStep(s) ==
    IF s.at = "outer"
    THEN IF ~s.p.in_tool
         THEN LET begin_idx == Find(s.p.buffer, TOOL_BEGIN, 0)
              IN  IF begin_idx # -1
                  THEN LET preceding == Upto(s.p.buffer, begin_idx)
                       IN  [s EXCEPT !.p = [buffer |-> From(s.p.buffer, begin_idx),
                                            in_tool |-> TRUE, nesting_depth |-> 1],
                                     !.found = IF preceding # <<>>
                                               THEN Append(s.found, [tool_content |-> None,
                                                                     text |-> preceding])
                                               ELSE s.found]
                  ELSE LET marker_len == Len(TOOL_BEGIN)
                       IN  IF Len(s.p.buffer) > marker_len
                           THEN [s EXCEPT !.p.buffer = From(s.p.buffer, Len(s.p.buffer) - marker_len),
                                          !.found = Append(s.found,
                                              [tool_content |-> None,
                                               text |-> Upto(s.p.buffer, Len(s.p.buffer) - marker_len)]),
                                          !.at = "return"]
                           ELSE [s EXCEPT !.at = "return"]
         ELSE [s EXCEPT !.at = "inner", !.search_start = Len(TOOL_BEGIN)]
    ELSE IF s.at = "inner"
    THEN LET next_begin == Find(s.p.buffer, TOOL_BEGIN, s.search_start)
             next_end == Find(s.p.buffer, TOOL_END, s.search_start)
         IN  IF next_end = -1
             THEN [s EXCEPT !.at = "return"]
             ELSE IF next_begin # -1 /\ next_begin < next_end
             THEN [s EXCEPT !.p.nesting_depth = s.p.nesting_depth + 1,
                            !.search_start = next_begin + Len(TOOL_BEGIN)]
             ELSE IF s.p.nesting_depth - 1 = 0
             THEN LET end_pos == next_end + Len(TOOL_END)
                  IN  [s EXCEPT !.p = [buffer |-> From(s.p.buffer, end_pos),
                                       in_tool |-> FALSE, nesting_depth |-> 0],
                                !.found = Append(s.found,
                                    [tool_content |-> Upto(s.p.buffer, end_pos), text |-> <<>>]),
                                !.at = "outer"]
             ELSE [s EXCEPT !.p.nesting_depth = s.p.nesting_depth - 1,
                            !.search_start = next_end + Len(TOOL_END)]
    ELSE s

\* flush that hands the buffer out and leaves the parser as it is
Flush_NoReset(p) == [state |-> p, remaining |-> p.buffer]

\* MIMEToolCallParser.flush
Flush(p) == [state |-> ParserInit, remaining |-> p.buffer]

----------------------------------------------------------------------------
(* parse_mime_tool_call *)

BOUNDARY_ID_HDR == <<"B","o","u","n","d","a","r","y","-","I","D",":">>
CONTENT_TYPE_HDR == <<"C","o","n","t","e","n","t","-","T","y","p","e",":">>
CONTENT_DISPOSITION_HDR == <<"C","o","n","t","e","n","t","-","D","i","s","p","o","s","i","t","i","o","n",":">>
NAME_ATTR == <<"n","a","m","e","=","\"">>
TOOL_NAME == <<"t","o","o","l","_","n","a","m","e">>

\* the header loop: lines are 0-indexed as in enumerate(lines)
RECURSIVE HeaderLoop(_, _, _)
HeaderLoop(lines, i, boundary_id) ==
    IF i >= Len(lines) THEN [boundary_id |-> boundary_id, header_end |-> 0]
    ELSE LET line == Strip(lines[i + 1])
         IN  IF StartsWith(line, BOUNDARY_ID_HDR)
             THEN HeaderLoop(lines, i + 1, Strip(From(line, Find(line, <<":">>, 0) + 1)))
             ELSE IF line = <<>> /\ boundary_id # None
             THEN [boundary_id |-> boundary_id, header_end |-> i + 1]
             ELSE HeaderLoop(lines, i + 1, boundary_id)

\* the loop that splits the body by boundary markers
RECURSIVE SplitParts(_, _, _, _)
SplitParts(body, boundary_marker, current_pos, parts) ==
    LET boundary_end == boundary_marker \o <<"-","-">>
        next_boundary == Find(body, boundary_marker, current_pos)
    IN  IF next_boundary = -1 THEN parts
        ELSE IF MatchAt(body, boundary_end, next_boundary) THEN parts
        ELSE LET part_start == next_boundary + Len(boundary_marker)
                 next_part == Find(body, boundary_marker, part_start)
                 part_content == IF next_part = -1 THEN From(body, part_start)
                                 ELSE Slice(body, part_start, next_part)
             IN  SplitParts(body, boundary_marker, part_start, Append(parts, part_content))

\* re.search(r'name="([^"]+)"', line): group 1 of the leftmost match, or None
RECURSIVE NameSearch(_, _)
NameSearch(line, from) ==
    LET i == Find(line, NAME_ATTR, from)
    IN  IF i = -1 THEN None
        ELSE LET q == Find(line, <<"\"">>, i + Len(NAME_ATTR))
             IN  IF q > i + Len(NAME_ATTR) THEN Slice(line, i + Len(NAME_ATTR), q)
                 ELSE NameSearch(line, i + 1)

\* the loop over the lines of one part
RECURSIVE PartHeaderLoop(_, _, _)
PartHeaderLoop(lines, i, param_name) ==
    IF i >= Len(lines) THEN [param_name |-> param_name, content_start |-> 0]
    ELSE LET line_stripped == Strip(lines[i + 1])
         IN  IF StartsWith(line_stripped, CONTENT_DISPOSITION_HDR)
             THEN LET match == NameSearch(line_stripped, 0)
                  IN  PartHeaderLoop(lines, i + 1, IF match # None THEN match ELSE param_name)
             ELSE IF line_stripped = <<>> /\ param_name # None
             THEN [param_name |-> param_name, content_start |-> i + 1]
             ELSE PartHeaderLoop(lines, i + 1, param_name)

\* the loop removing every empty line of the value, not only the trailing ones
RECURSIVE PopEmpty_Everywhere(_)
PopEmpty_Everywhere(value_lines) ==
    IF value_lines = <<>> THEN <<>>
    ELSE IF Strip(Head(value_lines)) = <<>> THEN PopEmpty_Everywhere(Tail(value_lines))
    ELSE <<Head(value_lines)>> \o PopEmpty_Everywhere(Tail(value_lines))

\* while value_lines and value_lines[-1].strip() == '': value_lines.pop()
RECURSIVE PopEmpty(_)
PopEmpty(value_lines) ==
    IF value_lines # <<>> /\ Strip(value_lines[Len(value_lines)]) = <<>>
    THEN PopEmpty(Upto(value_lines, Len(value_lines) - 1))
    ELSE value_lines

\* params[name] = value on an insertion-ordered dict, kept as a list of pairs
DictSet(params, name, value) ==
    IF \E k \in 1..Len(params) : params[k][1] = name
    THEN [k \in 1..Len(params) |->
            IF params[k][1] = name THEN <<name, value>> ELSE params[k]]
    ELSE Append(params, <<name, value>>)

\* the loop over the parts; tool_name None is <<>>
RECURSIVE PartsLoop(_, _, _)
PartsLoop(parts, tool_name, params) ==
    IF parts = <<>> THEN [tool_name |-> tool_name, params |-> params]
    ELSE LET part == Strip(Head(parts))
             lines == Split(part)
             h == PartHeaderLoop(lines, 0, None)
             value == Join(PopEmpty(From(lines, h.content_start)))
         IN  IF part = <<>> \/ h.param_name = None
             THEN PartsLoop(Tail(parts), tool_name, params)
             ELSE IF h.param_name = TOOL_NAME
             THEN PartsLoop(Tail(parts), Strip(value), params)
             ELSE PartsLoop(Tail(parts), tool_name, DictSet(params, h.param_name, value))

MISSING_BOUNDARY == <<"M","i","s","s","i","n","g"," ","B","o","u","n","d","a","r","y","-","I","D"," ","i","n"," ","t","o","o","l"," ","c","a","l","l">>
MISSING_TOOL_NAME == <<"M","i","s","s","i","n","g"," ","t","o","o","l","_","n","a","m","e"," ","i","n"," ","t","o","o","l"," ","c","a","l","l">>

\* an exception raised with message msg
Raise(msg) == [ok |-> FALSE, error |-> msg]

parse_mime_tool_call(tool_content) ==
    Once(Strip(tool_content), LAMBDA c0 :
    Once(IF StartsWith(c0, TOOL_BEGIN) THEN Strip(From(c0, Len(TOOL_BEGIN))) ELSE c0, LAMBDA c1 :
    Once(IF EndsWith(c1, TOOL_END)
         THEN Strip(Upto(c1, Len(c1) - Len(TOOL_END))) ELSE c1, LAMBDA content :
    Once(Split(content), LAMBDA lines :
    Once(HeaderLoop(lines, 0, None), LAMBDA hdr :
        IF hdr.boundary_id = None THEN Raise(MISSING_BOUNDARY)
        ELSE
    Once(Join(From(lines, hdr.header_end)), LAMBDA body :
    Once(SplitParts(body, <<"-","-">> \o hdr.boundary_id, 0, <<>>), LAMBDA parts :
    Once(PartsLoop(parts, None, <<>>), LAMBDA r :
        IF r.tool_name = None THEN Raise(MISSING_TOOL_NAME)
        ELSE [ok |-> TRUE, tool_name |-> r.tool_name, params |-> r.params]))))))))

----------------------------------------------------------------------------
(* The tool-call format of the system prompt *)

ENC_HEAD == <<"\n","C","o","n","t","e","n","t","-","T","y","p","e",":"," ","t","o","o","l","-","c","a","l","l","\n","B","o","u","n","d","a","r","y","-","I","D",":"," ">>
ENC_DISP == <<"\n","C","o","n","t","e","n","t","-","D","i","s","p","o","s","i","t","i","o","n",":"," ","p","a","r","a","m",";"," ","n","a","m","e","=","\"">>

\* one section: --[id], the Content-Disposition line, a blank line, the value
EncodeParam(bid, name, value) ==
    <<"-","-">> \o bid \o ENC_DISP \o name \o <<"\"","\n","\n">> \o value \o <<"\n">>

\* a section without a name declaration: --[id], a blank line, the value
EncodeNameless(bid, value) ==
    <<"-","-">> \o bid \o <<"\n","\n">> \o value \o <<"\n">>

\* the sections of params in order; a pair whose name is None is written as a
\* section without the Content-Disposition line
RECURSIVE EncodeParams(_, _)
EncodeParams(bid, params) ==
    IF params = <<>> THEN <<>>
    ELSE (IF Head(params)[1] = None THEN EncodeNameless(bid, Head(params)[2])
          ELSE EncodeParam(bid, Head(params)[1], Head(params)[2]))
         \o EncodeParams(bid, Tail(params))

\* the block a producer writes for a call [bid, has_name, tool_name, params];
\* has_name = FALSE leaves the tool_name section out
Encode(c) ==
    TOOL_BEGIN \o ENC_HEAD \o c.bid \o <<"\n","\n">>
    \o (IF c.has_name THEN EncodeParam(c.bid, TOOL_NAME, c.tool_name) ELSE <<>>)
    \o EncodeParams(c.bid, c.params)
    \o <<"-","-">> \o c.bid \o <<"-","-","\n">> \o TOOL_END

----------------------------------------------------------------------------
(* execute_tool *)

\* the error mark the result texts start with (one non-ASCII sign in the source)
ERR_MARK == <<"(x)">>

\* tools.tools: name, the handler's required and optional arguments, what a call of
\* the handler can do (return a text, return a text that starts with the error
\* mark, raise) and whether a call that returns may have written project files
Registry == {
    [name |-> <<"f","i","l","e","_","l","i","s","t">>,
     required |-> {}, optional |-> {},
     outcomes |-> {"return"}, writes |-> FALSE],
    [name |-> <<"f","i","l","e","_","r","e","a","d">>,
     required |-> {<<"p","a","t","h">>}, optional |-> {<<"s","t","a","r","t","_","l","i","n","e">>, <<"e","n","d","_","l","i","n","e">>},
     outcomes |-> {"return", "raise"}, writes |-> FALSE],
    [name |-> <<"f","i","l","e","_","e","d","i","t">>,
     required |-> {<<"p","a","t","h">>, <<"n","e","w","_","s","t","r">>}, optional |-> {<<"o","l","d","_","s","t","r">>},
     outcomes |-> {"return", "raise"}, writes |-> TRUE],
    [name |-> <<"f","e","t","c","h","_","u","r","l">>,
     required |-> {<<"u","r","l">>}, optional |-> {},
     outcomes |-> {"return", "raise"}, writes |-> FALSE],
    [name |-> <<"s","e","a","r","c","h","_","c","o","d","e","b","a","s","e">>,
     required |-> {<<"s","e","a","r","c","h","_","t","e","r","m">>}, optional |-> {<<"c","a","s","e","_","s","e","n","s","i","t","i","v","e">>},
     outcomes |-> {"return"}, writes |-> FALSE],
    [name |-> <<"t","o","d","o","_","r","e","a","d">>,
     required |-> {}, optional |-> {},
     outcomes |-> {"return"}, writes |-> FALSE],
    [name |-> <<"t","o","d","o","_","w","r","i","t","e">>,
     required |-> {<<"c","o","n","t","e","n","t">>}, optional |-> {},
     outcomes |-> {"return", "raise"}, writes |-> TRUE],
    [name |-> <<"c","o","n","v","e","r","t","_","t","o","_","m","a","r","k","d","o","w","n">>,
     required |-> {<<"p","a","t","h">>}, optional |-> {},
     outcomes |-> {"return", "return_error", "raise"}, writes |-> TRUE],
    [name |-> <<"c","o","n","v","e","r","t","_","f","r","o","m","_","m","a","r","k","d","o","w","n">>,
     required |-> {<<"p","a","t","h">>, <<"o","u","t","p","u","t","_","f","o","r","m","a","t">>}, optional |-> {},
     outcomes |-> {"return", "return_error", "raise"}, writes |-> TRUE],
    [name |-> <<"g","i","t","_","a","d","d">>,
     required |-> {<<"p","a","t","h","s">>}, optional |-> {},
     outcomes |-> {"return", "return_error"}, writes |-> TRUE],
    [name |-> <<"g","i","t","_","c","o","m","m","i","t">>,
     required |-> {<<"m","e","s","s","a","g","e">>}, optional |-> {},
     outcomes |-> {"return", "return_error"}, writes |-> TRUE],
    [name |-> <<"g","i","t","_","d","i","f","f">>,
     required |-> {}, optional |-> {<<"s","t","a","g","e","d">>, <<"f","i","l","e","_","p","a","t","h">>},
     outcomes |-> {"return", "return_error"}, writes |-> FALSE],
    [name |-> <<"f","i","l","e","_","m","o","v","e">>,
     required |-> {<<"s","o","u","r","c","e">>, <<"d","e","s","t","i","n","a","t","i","o","n">>}, optional |-> {},
     outcomes |-> {"return", "return_error"}, writes |-> TRUE],
    [name |-> <<"f","i","l","e","_","d","e","l","e","t","e">>,
     required |-> {<<"p","a","t","h">>}, optional |-> {},
     outcomes |-> {"return", "return_error"}, writes |-> TRUE],
    [name |-> <<"s","e","a","r","c","h","_","r","e","p","l","a","c","e">>,
     required |-> {<<"s","e","a","r","c","h","_","t","e","r","m">>, <<"r","e","p","l","a","c","e","_","t","e","r","m">>}, optional |-> {<<"f","i","l","e","_","p","a","t","t","e","r","n">>, <<"c","a","s","e","_","s","e","n","s","i","t","i","v","e">>},
     outcomes |-> {"return", "return_error"}, writes |-> TRUE]}

RegisteredNames == {t.name : t \in Registry}

Tool(name) == CHOOSE t \in Registry : t.name = name

\* the gate list without its last name
modifying_tools_Short ==
    <<<<"f","i","l","e","_","e","d","i","t">>,
      <<"f","i","l","e","_","m","o","v","e">>,
      <<"f","i","l","e","_","d","e","l","e","t","e">>,
      <<"s","e","a","r","c","h","_","r","e","p","l","a","c","e">>,
      <<"g","i","t","_","a","d","d">>>>

modifying_tools == <<<<"f","i","l","e","_","e","d","i","t">>,
                     <<"f","i","l","e","_","m","o","v","e">>,
                     <<"f","i","l","e","_","d","e","l","e","t","e">>,
                     <<"s","e","a","r","c","h","_","r","e","p","l","a","c","e">>,
                     <<"g","i","t","_","a","d","d">>,
                     <<"g","i","t","_","c","o","m","m","i","t">>>>

DISABLED_MSG == <<" ","i","s"," ","d","i","s","a","b","l","e","d"," ","i","n"," ","p","l","a","n","n","i","n","g"," ","m","o","d","e","."," ","U","s","e"," ","/","p","l","a","n"," ","t","o"," ","t","o","g","g","l","e"," ","p","l","a","n","n","i","n","g"," ","m","o","d","e",".">>
UNKNOWN_MSG == <<" ","U","n","k","n","o","w","n"," ","t","o","o","l",":"," ">>
EXEC_ERROR_MSG == <<" ","T","o","o","l"," ","e","x","e","c","u","t","i","o","n"," ","e","r","r","o","r",":"," ">>

\* texts that stand for what a handler returns or raises
HANDLER_TEXT == <<"o","k">>
HANDLER_ERROR_TEXT == ERR_MARK \o <<" ","n","o">>
HANDLER_EXCEPTION == <<"b","o","o","m">>
TYPE_ERROR == <<"T","y","p","e","E","r","r","o","r">>

InSeq(x, s) == \E k \in 1..Len(s) : s[k] = x

ParamNames(params) == {params[k][1] : k \in 1..Len(params)}

\* handler(**tool_args) binds: every required argument given, no unknown one
Binds(t, params) ==
    /\ t.required \subseteq ParamNames(params)
    /\ ParamNames(params) \subseteq (t.required \cup t.optional)

\* does execute_tool reach the handler call with arguments that bind
ReachesHandler(d, planning) ==
    /\ d.ok
    /\ ~(planning /\ InSeq(d.tool_name, modifying_tools))
    /\ d.tool_name \in RegisteredNames
    /\ Binds(Tool(d.tool_name), d.params)

\* what the handler can do in this call; "none" when it is not called
OutcomesFor(tool_content, planning) ==
    Once(parse_mime_tool_call(tool_content), LAMBDA d :
        IF ReachesHandler(d, planning) THEN Tool(d.tool_name).outcomes ELSE {"none"})

\* the try block without the test for an unknown tool: the lookup
\* tools.tools[tool_name] raises KeyError, whose text is the quoted name
execute_tool_try_NoUnknownTest(tool_content, planning, outcome) ==
    LET Out(res, raised, name, called, wrote) ==
            [result |-> res, raised |-> raised, tool_name |-> name,
             called |-> called, wrote |-> wrote, planning_mode |-> planning,
             did |-> IF called THEN outcome ELSE "none"]
    IN  Once(parse_mime_tool_call(tool_content), LAMBDA d :
        IF ~d.ok
        THEN Out(d.error, TRUE, None, FALSE, FALSE)
        ELSE IF planning /\ InSeq(d.tool_name, modifying_tools)
        THEN Out(ERR_MARK \o <<" ">> \o d.tool_name \o DISABLED_MSG, FALSE, d.tool_name, FALSE, FALSE)
        ELSE IF d.tool_name \notin RegisteredNames
        THEN Out(<<"'">> \o d.tool_name \o <<"'">>, TRUE, d.tool_name, FALSE, FALSE)
        ELSE IF ~Binds(Tool(d.tool_name), d.params)
        THEN Out(TYPE_ERROR, TRUE, d.tool_name, FALSE, FALSE)
        ELSE IF outcome = "raise"
        THEN Out(HANDLER_EXCEPTION, TRUE, d.tool_name, TRUE, FALSE)
        ELSE IF outcome = "return_error"
        THEN Out(HANDLER_ERROR_TEXT, FALSE, d.tool_name, TRUE, FALSE)
        ELSE Out(HANDLER_TEXT, FALSE, d.tool_name, TRUE, Tool(d.tool_name).writes))

\* the try block of execute_tool, given what the handler does if it is called:
\* either a returned text, or an exception (raised) with its message in result
execute_tool_try(tool_content, planning, outcome) ==
    LET Out(res, raised, name, called, wrote) ==
            [result |-> res, raised |-> raised, tool_name |-> name,
             called |-> called, wrote |-> wrote, planning_mode |-> planning,
             did |-> IF called THEN outcome ELSE "none"]
    IN  Once(parse_mime_tool_call(tool_content), LAMBDA d :
        IF ~d.ok
        THEN Out(d.error, TRUE, None, FALSE, FALSE)
        ELSE IF planning /\ InSeq(d.tool_name, modifying_tools)
        THEN Out(ERR_MARK \o <<" ">> \o d.tool_name \o DISABLED_MSG, FALSE, d.tool_name, FALSE, FALSE)
        ELSE IF d.tool_name \notin RegisteredNames
        THEN Out(ERR_MARK \o UNKNOWN_MSG \o d.tool_name, FALSE, d.tool_name, FALSE, FALSE)
        ELSE IF ~Binds(Tool(d.tool_name), d.params)
        THEN Out(TYPE_ERROR, TRUE, d.tool_name, FALSE, FALSE)
        ELSE IF outcome = "raise"
        THEN Out(HANDLER_EXCEPTION, TRUE, d.tool_name, TRUE, FALSE)
        ELSE IF outcome = "return_error"
        THEN Out(HANDLER_ERROR_TEXT, FALSE, d.tool_name, TRUE, FALSE)
        ELSE Out(HANDLER_TEXT, FALSE, d.tool_name, TRUE, Tool(d.tool_name).writes))

\* execute_tool without its except clause: an exception leaves the function
execute_tool_Uncaught(tool_content, planning, outcome) ==
    execute_tool_try(tool_content, planning, outcome)

\* execute_tool: the try block, and except Exception turning an exception
\* into the returned error text
execute_tool(tool_content, planning, outcome) ==
    Once(execute_tool_try(tool_content, planning, outcome), LAMBDA r :
        IF r.raised
        THEN [r EXCEPT !.result = ERR_MARK \o EXEC_ERROR_MSG \o r.result, !.raised = FALSE]
        ELSE r)

----------------------------------------------------------------------------
(* A parser run: one text, split into chunks, fed to a fresh parser *)

Pieces == {TOOL_BEGIN, TOOL_END, <<"-","-","T","O","O","L","_","C","A","L","L","_">>, <<"x">>}
Markers == {TOOL_BEGIN, TOOL_END}

Parser == [buffer |-> buffer, in_tool |-> in_tool, nesting_depth |-> nesting_depth]

FreshParser ==
    /\ buffer = ParserInit.buffer
    /\ in_tool = ParserInit.in_tool
    /\ nesting_depth = ParserInit.nesting_depth

NoCall == [bid |-> <<>>, has_name |-> FALSE, tool_name |-> <<>>, params |-> <<>>]

\* the parts of the state a specification does not use
NoRun ==
    /\ text = <<>>
    /\ pos = 0
    /\ nfeeds = 0
    /\ events = <<>>
    /\ flushed = FALSE
    /\ remaining = <<>>

NoDecode ==
    /\ call = NoCall
    /\ decoded = <<>>

NoDispatch ==
    /\ planning_mode = FALSE
    /\ last_dispatch = <<>>
    /\ invoked = <<>>

NoSession ==
    /\ messages = <<>>
    /\ pc = "off"
    /\ step = "Init"
    /\ inputs = 0
    /\ requests = 0
    /\ toolTurns = 0
    /\ nlines = 0
    /\ full_response = <<>>
    /\ tool_outputs = <<>>
    /\ results = <<>>

NoTools ==
    /\ arg = <<>>
    /\ ret = <<>>
    /\ disk = <<>>
    /\ db = <<>>

RunInit(texts) ==
    /\ text \in texts
    /\ pos = 0
    /\ nfeeds = 0
    /\ events = <<>>
    /\ flushed = FALSE
    /\ remaining = <<>>
    /\ FreshParser
    /\ NoDecode
    /\ NoDispatch
    /\ NoSession
    /\ NoTools

InitParser == RunInit({Flatten(ps) : ps \in SeqsUpTo(Pieces, MaxPieces)})

\* marker-only texts that open a block
InitNest ==
    RunInit({TOOL_BEGIN \o Flatten(ps) : ps \in SeqsUpTo(Markers, MaxNestPieces - 1)})

\* parser.feed(chunk) for the next n characters of text
FeedChunk(n) ==
    /\ ~flushed
    /\ LET r == Feed(Parser, Slice(text, pos, pos + n))
       IN  /\ buffer' = r.state.buffer
           /\ in_tool' = r.state.in_tool
           /\ nesting_depth' = r.state.nesting_depth
           /\ events' = events \o r.results
    /\ pos' = pos + n
    /\ nfeeds' = nfeeds + 1
    /\ UNCHANGED <<text, flushed, remaining, callVars, toolVars, dispatchVars, sessionVars>>

\* parser.flush() at the end of the text
FlushRun ==
    /\ ~flushed
    /\ pos = Len(text)
    /\ LET r == Flush(Parser)
       IN  /\ buffer' = r.state.buffer
           /\ in_tool' = r.state.in_tool
           /\ nesting_depth' = r.state.nesting_depth
           /\ remaining' = r.remaining
    /\ flushed' = TRUE
    /\ UNCHANGED <<text, pos, nfeeds, events, callVars, toolVars, dispatchVars, sessionVars>>

\* a run of at most maxc feed calls: the last permitted one takes the rest
RunNext(maxc) ==
    \/ \E n \in 1..(Len(text) - pos) :
          /\ nfeeds < maxc
          /\ (nfeeds = maxc - 1 => n = Len(text) - pos)
          /\ FeedChunk(n)
    \/ FlushRun

NextParser == RunNext(MaxChunks)

NextNest == RunNext(MaxNestChunks)

NextSingle == RunNext(1)

SpecParser == InitParser /\ [][NextParser]_vars

SpecNest == InitNest /\ [][NextNest]_vars

\* marker-only texts, each fed in a single call
SpecSingle == InitNest /\ [][NextSingle]_vars

InitOnce == RunInit({Flatten(ps) : ps \in SeqsUpTo(Pieces, MaxOncePieces)})

\* general texts, each fed in a single call
SpecOnce == InitOnce /\ [][NextSingle]_vars

----------------------------------------------------------------------------
(* Decoding one encoded call *)

BoundaryIds == {<<"b","1">>, <<"a">>}
ValueChars == {"a", " ", "\n"}
Values == SeqsUpTo(ValueChars, MaxValueLen)
P == <<"p">>
Q == <<"q">>

\* the ordered parameter maps over the names p and q
ParamMaps ==
    {<<>>}
    \cup {<< <<n, v>> >> : n \in {P, Q}, v \in Values}
    \cup {<< <<n[1], v>>, <<n[2], w>> >> : n \in {<<P, Q>>, <<Q, P>>}, v \in Values, w \in Values}

\* the section lists in which one section has no name declaration
NamelessMaps ==
    {<< <<None, v>> >> : v \in Values}
    \cup {<< <<None, v>>, <<P, w>> >> : v \in Values, w \in Values}
    \cup {<< <<P, v>>, <<None, w>> >> : v \in Values, w \in Values}

ToolNames == {<<"t">>, <<>>, <<" ">>, <<" ","t">>}

DecodeCalls ==
    {[bid |-> b, has_name |-> TRUE, tool_name |-> n, params |-> ps] :
        b \in BoundaryIds, n \in ToolNames, ps \in ParamMaps \cup NamelessMaps}
    \cup {[bid |-> b, has_name |-> FALSE, tool_name |-> <<>>, params |-> ps] :
        b \in BoundaryIds, ps \in ParamMaps}

InitDecode ==
    /\ call \in DecodeCalls
    /\ decoded = <<>>
    /\ NoRun
    /\ FreshParser
    /\ NoDispatch
    /\ NoSession
    /\ NoTools

\* parse_mime_tool_call(block) on the block that encodes call
DecodeCall ==
    /\ decoded = <<>>
    /\ decoded' = <<parse_mime_tool_call(Encode(call))>>
    /\ UNCHANGED <<call, toolVars, runVars, parserVars, dispatchVars, sessionVars>>

\* calls whose parameter values have whitespace between two other characters
InitInterior ==
    /\ call \in LET V == {<<c>> \o mid \o <<c>> :
                            c \in {"a", "v"}, mid \in SeqsUpTo({" ", "\n", "\t"}, MaxInterior)}
                 IN  {[bid |-> b, has_name |-> TRUE, tool_name |-> <<"t">>, params |-> ps] :
                         b \in BoundaryIds,
                         ps \in {<< <<P, v>> >> : v \in V}
                                \cup {<< <<P, v>>, <<Q, w>> >> : v \in V, w \in V}}
    /\ decoded = <<>>
    /\ NoRun
    /\ FreshParser
    /\ NoDispatch
    /\ NoSession
    /\ NoTools

SpecInterior == InitInterior /\ [][DecodeCall]_vars

NextDecode == DecodeCall

SpecDecode == InitDecode /\ [][NextDecode]_vars

----------------------------------------------------------------------------
(* Dispatching one block *)

UNKNOWN_TOOL == <<"n","o","p","e">>
ARG == <<"a">>
EXTRA == <<"z">>

\* parameter lists for a tool: exactly the required ones, none, one too many
ArgLists(required) ==
    LET req == SetToSeq(required)
        given == [k \in 1..Len(req) |-> <<req[k], ARG>>]
    IN  {given, <<>>, Append(given, <<EXTRA, ARG>>)}

DispatchCalls ==
    UNION {{[bid |-> <<"b","1">>, has_name |-> TRUE, tool_name |-> t.name, params |-> ps] :
                ps \in ArgLists(t.required)} : t \in Registry}
    \cup {[bid |-> <<"b","1">>, has_name |-> TRUE, tool_name |-> UNKNOWN_TOOL, params |-> <<>>],
          [bid |-> <<"b","1">>, has_name |-> TRUE, tool_name |-> UNKNOWN_TOOL,
           params |-> << <<EXTRA, ARG>> >>],
          [bid |-> <<"b","1">>, has_name |-> FALSE, tool_name |-> <<>>, params |-> <<>>],
          [bid |-> <<>>, has_name |-> TRUE, tool_name |-> TOOL_NAME, params |-> <<>>]}

InitDispatch ==
    /\ call \in DispatchCalls
    /\ decoded = <<>>
    /\ planning_mode \in BOOLEAN
    /\ last_dispatch = <<>>
    /\ invoked = <<>>
    /\ NoRun
    /\ FreshParser
    /\ NoSession
    /\ NoTools

\* the handler calls after a dispatch with outcome r
Invoked(r) ==
    IF r.called
    THEN Append(invoked, [tool_name |-> r.tool_name, planning_mode |-> r.planning_mode,
                          wrote |-> r.wrote])
    ELSE invoked

\* execute_tool(block, console, planning_mode) on the block that encodes call
Dispatch ==
    /\ last_dispatch = <<>>
    /\ \E tool_content \in {Encode(call)} :
       \E outcome \in OutcomesFor(tool_content, planning_mode) :
       \E r \in {execute_tool(tool_content, planning_mode, outcome)} :
          /\ last_dispatch' = <<r>>
          /\ invoked' = Invoked(r)
    /\ UNCHANGED <<call, toolVars, decoded, planning_mode, runVars, parserVars, sessionVars>>

NextDispatch == Dispatch

SpecDispatch == InitDispatch /\ [][NextDispatch]_vars

----------------------------------------------------------------------------
(* The session: main and stream_response *)

\* args.max_tokens, given a value small enough for trimming to happen
max_tokens == 60

\* tools.get_tools_description(): a heading and one description per entry of
\* tools.descriptions, in the order of registration; each element stands for
\* the description of the tool it names
get_tools_description ==
    <<"Available tools:", "## file_list", "## file_read", "## file_edit", "## fetch_url",
      "## search_codebase", "## todo_read", "## todo_write", "## convert_to_markdown",
      "## convert_from_markdown", "## git_add", "## git_commit", "## git_diff",
      "## file_move", "## file_delete", "## search_replace">>

\* tools.get_system_prompt(planning_mode): each element stands for a literal
\* part of the prompt
SystemPrompt(planning) ==
    (IF planning THEN <<"PLANNING MODE ACTIVE">> ELSE <<>>)
    \o <<"You are a coding assistant with access to file manipulation tools.">>
    \o get_tools_description

RECURSIVE TotalChars(_)
TotalChars(msgs) ==
    IF msgs = <<>> THEN 0 ELSE Len(Head(msgs).content) + TotalChars(Tail(msgs))

\* manage_context that removes the newest message instead of the oldest
RECURSIVE manage_context_PopLast(_, _)
manage_context_PopLast(msgs, limit) ==
    IF TotalChars(msgs) \div 4 > limit /\ Len(msgs) > 2
    THEN manage_context_PopLast(Upto(msgs, Len(msgs) - 1), limit)
    ELSE msgs

RECURSIVE manage_context(_, _)
manage_context(msgs, limit) ==
    IF TotalChars(msgs) \div 4 > limit /\ Len(msgs) > 2
    THEN manage_context(<<msgs[1]>> \o SubSeq(msgs, 3, Len(msgs)), limit)
    ELSE msgs

\* json.dumps of a string, without the quotes around it
RECURSIVE JsonEscape(_)
JsonEscape(s) ==
    IF s = <<>> THEN <<>>
    ELSE LET c == Head(s)
             e == IF c = "\"" THEN <<"\\", "\"">>
                  ELSE IF c = "\\" THEN <<"\\", "\\">>
                  ELSE IF c = "\n" THEN <<"\\", "n">>
                  ELSE IF c = "\t" THEN <<"\\", "t">>
                  ELSE IF c = "\r" THEN <<"\\", "r">>
                  ELSE IF <<c>> = ERR_MARK
                  THEN <<"\\","u","2","0","1","a","\\","u","0","0","f","9","\\","u","0","0","e","5">>
                  ELSE <<c>>
         IN  e \o JsonEscape(Tail(s))

SUCCESS == <<"s","u","c","c","e","s","s">>
ERROR == <<"e","r","r","o","r">>

\* the result message with the status success whatever the output is
ToolOutputContent_AlwaysSuccess(tool_output) ==
    <<"T","o","o","l"," ","o","u","t","p","u","t",":","\n">>
    \o <<"{","\n"," "," ","\"","s","t","a","t","u","s","\"",":"," ","\"">>
    \o SUCCESS
    \o <<"\"",",","\n"," "," ","\"","o","u","t","p","u","t","\"",":"," ","\"">>
    \o JsonEscape(tool_output)
    \o <<"\"","\n","}">>

\* f"Tool output:\n{json.dumps(tool_result, indent=2)}"
ToolOutputContent(tool_output) ==
    <<"T","o","o","l"," ","o","u","t","p","u","t",":","\n">>
    \o <<"{","\n"," "," ","\"","s","t","a","t","u","s","\"",":"," ","\"">>
    \o (IF ~StartsWith(tool_output, ERR_MARK) THEN SUCCESS ELSE ERROR)
    \o <<"\"",",","\n"," "," ","\"","o","u","t","p","u","t","\"",":"," ","\"">>
    \o JsonEscape(tool_output)
    \o <<"\"","\n","}">>

\* the loop with the whole response as the assistant message of every pair
RECURSIVE Commit_FullResponse(_, _)
Commit_FullResponse(msgs, outputs) ==
    IF outputs = <<>> THEN msgs
    ELSE Commit_FullResponse(
            msgs \o <<[role |-> "assistant", content |-> full_response],
                      [role |-> "user", content |-> ToolOutputContent(Head(outputs)[2])]>>,
            Tail(outputs))

\* the loop that appends the tool outputs to the messages
RECURSIVE Commit(_, _)
Commit(msgs, outputs) ==
    IF outputs = <<>> THEN msgs
    ELSE Commit(msgs \o <<[role |-> "assistant", content |-> Head(outputs)[1]],
                          [role |-> "user", content |-> ToolOutputContent(Head(outputs)[2])]>>,
                Tail(outputs))

\* what the user types
USER_INPUT == <<"h","i">>

\* what the model writes: blocks and text
D_DELETE ==
    Encode([bid |-> <<"b","1">>, has_name |-> TRUE,
            tool_name |-> <<"f","i","l","e","_","d","e","l","e","t","e">>,
            params |-> << <<<<"p","a","t","h">>, ARG>> >>])
D_TODO ==
    Encode([bid |-> <<"b","1">>, has_name |-> TRUE,
            tool_name |-> <<"t","o","d","o","_","w","r","i","t","e">>,
            params |-> << <<<<"c","o","n","t","e","n","t">>, ARG>> >>])
D_NOBID == TOOL_BEGIN \o <<"\n","x","\n">> \o TOOL_END
D_TEXT == <<"o","k">>

D_UNKNOWN ==
    Encode([bid |-> <<"b","1">>, has_name |-> TRUE, tool_name |-> UNKNOWN_TOOL, params |-> <<>>])

\* two blocks in one content delta, the second a call of an unknown tool
D_PAIR == D_DELETE \o D_UNKNOWN

Deltas == {D_DELETE, D_TODO, D_NOBID, D_PAIR, D_TEXT}

\* the lines of a response: skipped ones, and data lines with a content delta
SkippedLines == {[kind |-> k, content |-> <<>>] : k \in {"empty", "nodata", "badjson", "nocontent"}}
ContentLines(ds) == {[kind |-> "content", content |-> d] : d \in ds}

InitSession ==
    /\ planning_mode = FALSE
    /\ messages = <<[role |-> "system", content |-> SystemPrompt(FALSE)]>>
    /\ pc = "prompt"
    /\ step = "Init"
    /\ inputs = 0
    /\ requests = 0
    /\ toolTurns = 0
    /\ nlines = 0
    /\ full_response = <<>>
    /\ tool_outputs = <<>>
    /\ results = <<>>
    /\ last_dispatch = <<>>
    /\ invoked = <<>>
    /\ NoRun
    /\ FreshParser
    /\ NoDecode
    /\ NoTools

\* the locals of a stream_response frame as the function sets them up
FrameInit ==
    /\ full_response' = <<>>
    /\ tool_outputs' = <<>>
    /\ results' = <<>>
    /\ buffer' = ParserInit.buffer
    /\ in_tool' = ParserInit.in_tool
    /\ nesting_depth' = ParserInit.nesting_depth

\* main: a user message is logged, the context trimmed, stream_response called
UserInput ==
    /\ pc = "prompt"
    /\ inputs < MaxInputs
    /\ messages' = manage_context(
            Append(messages, [role |-> "user", content |-> USER_INPUT]), max_tokens)
    /\ pc' = "request"
    /\ step' = "UserInput"
    /\ inputs' = inputs + 1
    /\ toolTurns' = 0
    /\ UNCHANGED <<runVars, parserVars, callVars, toolVars, dispatchVars, requests,
                   nlines, full_response, tool_outputs, results>>

\* main: /plan
TogglePlan ==
    /\ pc = "prompt"
    /\ planning_mode' = ~planning_mode
    /\ messages' = [messages EXCEPT
                        ![1] = [role |-> "system", content |-> SystemPrompt(~planning_mode)]]
    /\ step' = "TogglePlan"
    /\ UNCHANGED <<runVars, parserVars, callVars, toolVars, last_dispatch, invoked, pc, inputs,
                   requests, toolTurns, nlines, full_response, tool_outputs, results>>

\* stream_response: the locals are set up and the request is posted
Request ==
    /\ pc = "request"
    /\ requests' = requests + 1
    /\ pc' = "stream"
    /\ step' = "Request"
    /\ FrameInit
    /\ UNCHANGED <<runVars, callVars, toolVars, dispatchVars, messages, inputs, toolTurns, nlines>>

\* stream_response: requests.post or raise_for_status raises; main reports it
RequestFails ==
    /\ pc = "request"
    /\ requests' = requests + 1
    /\ pc' = "prompt"
    /\ step' = "RequestFails"
    /\ FrameInit
    /\ UNCHANGED <<runVars, callVars, toolVars, dispatchVars, messages, inputs, toolTurns, nlines>>

\* the loop without the except clause for json.JSONDecodeError: a line whose
\* payload is not JSON ends stream_response with the exception
RecvLine_NoExcept(line) ==
    /\ pc = "stream"
    /\ nlines < MaxLines
    /\ nlines' = nlines + 1
    /\ step' = IF line.kind = "content" THEN "RecvLine" ELSE "SkipLine"
    /\ IF line.kind = "content"
       THEN \E r \in {Feed(Parser, line.content)} :
                /\ full_response' = full_response \o line.content
                /\ buffer' = r.state.buffer
                /\ in_tool' = r.state.in_tool
                /\ nesting_depth' = r.state.nesting_depth
                /\ results' = r.results
                /\ pc' = IF r.results = <<>> THEN "stream" ELSE "results"
                /\ tool_outputs' = tool_outputs
       ELSE IF line.kind = "badjson"
       THEN pc' = "prompt" /\ FrameInit
       ELSE UNCHANGED <<full_response, parserVars, results, pc, tool_outputs>>
    /\ UNCHANGED <<runVars, callVars, toolVars, dispatchVars, messages, inputs, requests, toolTurns>>

\* stream_response: one line of the response is read; a content delta is fed
\* to the parser and the results of the feed are to be worked through
RecvLine(line) ==
    /\ pc = "stream"
    /\ nlines < MaxLines
    /\ nlines' = nlines + 1
    /\ step' = IF line.kind = "content" THEN "RecvLine" ELSE "SkipLine"
    /\ IF line.kind = "content"
       THEN \E r \in {Feed(Parser, line.content)} :
                /\ full_response' = full_response \o line.content
                /\ buffer' = r.state.buffer
                /\ in_tool' = r.state.in_tool
                /\ nesting_depth' = r.state.nesting_depth
                /\ results' = r.results
                /\ pc' = IF r.results = <<>> THEN "stream" ELSE "results"
       ELSE UNCHANGED <<full_response, parserVars, results, pc>>
    /\ UNCHANGED <<runVars, callVars, toolVars, dispatchVars, messages, inputs, requests,
                   toolTurns, tool_outputs>>

\* ShowText that leaves the loop over the results after the text
ShowText_DropRest ==
    /\ pc = "results"
    /\ Head(results).tool_content = None
    /\ results' = <<>>
    /\ pc' = "stream"
    /\ step' = "ShowText"
    /\ UNCHANGED <<runVars, parserVars, callVars, toolVars, dispatchVars, messages, inputs,
                   requests, toolTurns, nlines, full_response, tool_outputs>>

\* stream_response: the next result of the feed is plain text, which is shown
ShowText ==
    /\ pc = "results"
    /\ Head(results).tool_content = None
    /\ results' = Tail(results)
    /\ pc' = IF Tail(results) = <<>> THEN "stream" ELSE "results"
    /\ step' = "ShowText"
    /\ UNCHANGED <<runVars, parserVars, callVars, toolVars, dispatchVars, messages, inputs,
                   requests, toolTurns, nlines, full_response, tool_outputs>>

\* stream_response: the next result of the feed is a tool block, which is
\* executed; an error result breaks out of the loop over the results
ExecuteBlock ==
    /\ pc = "results"
    /\ Head(results).tool_content # None
    /\ \E tool_content \in {Head(results).tool_content} :
       \E outcome \in OutcomesFor(tool_content, planning_mode) :
       \E r \in {execute_tool(tool_content, planning_mode, outcome)} :
          /\ last_dispatch' = <<r>>
          /\ invoked' = Invoked(r)
          /\ IF r.raised
             THEN /\ pc' = "prompt"
                  /\ FrameInit
             ELSE /\ tool_outputs' = Append(tool_outputs, <<tool_content, r.result>>)
                  /\ results' = IF StartsWith(r.result, ERR_MARK)
                                THEN <<>> ELSE Tail(results)
                  /\ pc' = IF results' = <<>> THEN "stream" ELSE "results"
                  /\ UNCHANGED <<full_response, parserVars>>
    /\ step' = "ExecuteBlock"
    /\ UNCHANGED <<runVars, callVars, toolVars, planning_mode, messages, inputs, requests, toolTurns, nlines>>

\* a tool output of the response under way is an error
ErrorInResponse ==
    \E k \in 1..Len(tool_outputs) : StartsWith(tool_outputs[k][2], ERR_MARK)

\* EndStream that asks for a follow-up only when every tool output is a success
EndStream_SuccessOnly ==
    /\ pc = "stream"
    /\ IF tool_outputs # <<>> /\ ~ErrorInResponse
       THEN /\ messages' = Commit(messages, tool_outputs)
            /\ toolTurns' = toolTurns + 1
            /\ pc' = "request"
       ELSE /\ messages' = Append(messages, [role |-> "assistant", content |-> full_response])
            /\ toolTurns' = toolTurns
            /\ pc' = "prompt"
    /\ step' = "EndStream"
    /\ FrameInit
    /\ UNCHANGED <<runVars, callVars, toolVars, dispatchVars, inputs, requests, nlines>>

\* stream_response: the response is over ([DONE] or no more lines); the parser
\* is flushed, then either the tool outputs are appended to the messages and
\* stream_response calls itself, or it returns and main logs the answer
EndStream ==
    /\ pc = "stream"
    /\ IF tool_outputs # <<>>
       THEN /\ messages' = Commit(messages, tool_outputs)
            /\ toolTurns' = toolTurns + 1
            /\ pc' = "request"
       ELSE /\ messages' = Append(messages, [role |-> "assistant", content |-> full_response])
            /\ toolTurns' = toolTurns
            /\ pc' = "prompt"
    /\ step' = "EndStream"
    /\ FrameInit
    /\ UNCHANGED <<runVars, callVars, toolVars, dispatchVars, inputs, requests, nlines>>

\* stream_response: reading the response raises; main reports it
StreamFails ==
    /\ pc = "stream"
    /\ pc' = "prompt"
    /\ step' = "StreamFails"
    /\ FrameInit
    /\ UNCHANGED <<runVars, callVars, toolVars, dispatchVars, messages, inputs, requests, toolTurns, nlines>>

\* the model calls tools only while a further request is possible
NextSession ==
    \/ UserInput
    \/ TogglePlan
    \/ Request
    \/ RequestFails
    \/ \E line \in SkippedLines
                   \cup ContentLines(IF requests < MaxRequests THEN Deltas ELSE {D_TEXT}) :
          RecvLine(line)
    \/ ShowText
    \/ ExecuteBlock
    \/ EndStream
    \/ StreamFails

SpecSession == InitSession /\ [][NextSession]_vars

\* main: KeyboardInterrupt while stream_response waits for a line or runs a
\* tool handler; the frame is left and main goes back to the prompt
Interrupt ==
    /\ pc \in {"stream", "results"}
    /\ pc' = "prompt"
    /\ step' = "Interrupt"
    /\ FrameInit
    /\ UNCHANGED <<runVars, callVars, toolVars, dispatchVars, messages, inputs, requests, toolTurns, nlines>>

\* main: KeyboardInterrupt while the loop over tool_outputs appends to the
\* messages: the appends made so far stay, k of them
InterruptCommit ==
    /\ pc = "stream"
    /\ tool_outputs # <<>>
    /\ \E k \in 0..(2 * Len(tool_outputs) - 1) :
          messages' = Upto(Commit(messages, tool_outputs), Len(messages) + k)
    /\ pc' = "prompt"
    /\ step' = "InterruptCommit"
    /\ FrameInit
    /\ UNCHANGED <<runVars, callVars, toolVars, dispatchVars, inputs, requests, toolTurns, nlines>>

NextCancel ==
    \/ NextSession
    \/ Interrupt
    \/ InterruptCommit

\* the session with a user who may press Ctrl-C during a turn
SpecCancel == InitSession /\ [][NextCancel]_vars

----------------------------------------------------------------------------
(* The session with the commands /clear and /undo *)

\* /clear that starts the log with the prompt of the session's start
Clear_InitialPrompt ==
    /\ pc = "prompt"
    /\ messages' = <<[role |-> "system", content |-> SystemPrompt(FALSE)]>>
    /\ step' = "Clear"
    /\ UNCHANGED <<runVars, parserVars, callVars, toolVars, dispatchVars, pc, inputs,
                   requests, toolTurns, nlines, full_response, tool_outputs, results>>

\* main: /clear.  The log becomes the one message that holds system_prompt,
\* the local that main assigns together with planning_mode, at the start and
\* at every /plan: it is the prompt of the mode in force.
Clear ==
    /\ pc = "prompt"
    /\ messages' = <<[role |-> "system", content |-> SystemPrompt(planning_mode)]>>
    /\ step' = "Clear"
    /\ UNCHANGED <<runVars, parserVars, callVars, toolVars, dispatchVars, pc, inputs,
                   requests, toolTurns, nlines, full_response, tool_outputs, results>>

\* main: /undo with a revert that succeeds: a user message tells of it
Undo ==
    /\ pc = "prompt"
    /\ inputs < MaxInputs
    /\ inputs' = inputs + 1
    /\ messages' = Append(messages,
            [role |-> "user",
             content |-> <<"S","y","s","t","e","m",":"," ","R","e","v","e","r","t","e","d">>])
    /\ step' = "Undo"
    /\ UNCHANGED <<runVars, parserVars, callVars, toolVars, dispatchVars, pc,
                   requests, toolTurns, nlines, full_response, tool_outputs, results>>

\* the session of a user who also types /clear and /undo; the responses
\* arrive whole and hold a call of file_delete or text
SpecCommands ==
    InitSession /\ [][\/ UserInput
                      \/ TogglePlan
                      \/ Clear
                      \/ Undo
                      \/ Request
                      \/ \E line \in ContentLines(IF requests < MaxRequests
                                                   THEN {D_DELETE, D_TEXT} ELSE {D_TEXT}) :
                            RecvLine(line)
                      \/ ShowText
                      \/ ExecuteBlock
                      \/ EndStream]_vars

----------------------------------------------------------------------------
(* A response whose tool call shows an example tool call in its content *)

\* the boundary IDs an example uses next to the outer call's ID b1
ExampleIds == {<<"e","x">>, <<"b","1","2">>}

\* the example: a complete block with its own markers and its own boundary ID
Example(id) ==
    Encode([bid |-> id, has_name |-> TRUE,
            tool_name |-> <<"t","o","d","o","_","w","r","i","t","e">>,
            params |-> << <<<<"c","o","n","t","e","n","t">>, ARG>> >>])

\* the outer call: todo_write with the example as its content
OuterBlock(id) ==
    Encode([bid |-> <<"b","1">>, has_name |-> TRUE,
            tool_name |-> <<"t","o","d","o","_","w","r","i","t","e">>,
            params |-> << <<<<"c","o","n","t","e","n","t">>, Example(id)>> >>])

\* stream_response has posted the request of the first user input and reads
\* the response, whose content is text
InitExample ==
    /\ text \in {pre \o OuterBlock(id) : pre \in {<<>>, <<"x">>}, id \in ExampleIds}
    /\ pos = 0
    /\ nfeeds = 0
    /\ events = <<>>
    /\ flushed = FALSE
    /\ remaining = <<>>
    /\ planning_mode = FALSE
    /\ messages = <<[role |-> "system", content |-> SystemPrompt(FALSE)],
                    [role |-> "user", content |-> USER_INPUT]>>
    /\ pc = "stream"
    /\ step = "Request"
    /\ inputs = 1
    /\ requests = 1
    /\ toolTurns = 0
    /\ nlines = 0
    /\ full_response = <<>>
    /\ tool_outputs = <<>>
    /\ results = <<>>
    /\ last_dispatch = <<>>
    /\ invoked = <<>>
    /\ FreshParser
    /\ NoDecode
    /\ NoTools

\* stream_response: a data line whose content delta is the next n characters
\* of text is read and fed to the parser
RecvDelta(n) ==
    /\ pc = "stream"
    /\ \E content \in {Slice(text, pos, pos + n)} :
       \E r \in {Feed(Parser, content)} :
          /\ full_response' = full_response \o content
          /\ buffer' = r.state.buffer
          /\ in_tool' = r.state.in_tool
          /\ nesting_depth' = r.state.nesting_depth
          /\ results' = r.results
          /\ events' = events \o r.results
          /\ pc' = IF r.results = <<>> THEN "stream" ELSE "results"
    /\ pos' = pos + n
    /\ nfeeds' = nfeeds + 1
    /\ step' = "RecvLine"
    /\ UNCHANGED <<text, flushed, remaining, callVars, toolVars, dispatchVars, messages, inputs,
                   requests, toolTurns, nlines, tool_outputs>>

\* the response comes in at most MaxExampleChunks deltas, cut anywhere
NextExample ==
    \/ \E n \in 1..(Len(text) - pos) :
          /\ nfeeds < MaxExampleChunks
          /\ (nfeeds = MaxExampleChunks - 1 => n = Len(text) - pos)
          /\ RecvDelta(n)
    \/ ShowText
    \/ ExecuteBlock
    \/ (pos = Len(text) /\ EndStream)

SpecExample == InitExample /\ [][NextExample]_vars

----------------------------------------------------------------------------
(* The chain of follow-up requests of one user turn *)

\* sys.getrecursionlimit(), which llode leaves at the interpreter's default:
\* stream_response calls itself for every follow-up request
RECURSION_LIMIT == 1000

\* a user turn has begun: main has called stream_response.  The message log,
\* which SpecSession follows, is left out of the chain.
InitChain ==
    /\ messages = <<>>
    /\ pc = "request"
    /\ step = "Init"
    /\ inputs = 1
    /\ requests = 0
    /\ toolTurns = 0
    /\ nlines = 0
    /\ full_response = <<>>
    /\ tool_outputs = <<>>
    /\ results = <<>>
    /\ NoRun
    /\ FreshParser
    /\ NoDecode
    /\ NoDispatch
    /\ NoTools

\* stream_response, called toolTurns deep, posts its request and reads the
\* finite response, which holds a tool call or none.  The frames of the
\* module, of main and of the toolTurns + 1 calls of stream_response are on
\* the stack and the call of requests.post needs one more at least; when
\* that passes the limit the interpreter raises RecursionError, which main
\* reports.
ChainResponse(has_tool) ==
    /\ pc = "request"
    /\ IF toolTurns + 4 <= RECURSION_LIMIT
       THEN /\ pc' = "stream"
            /\ step' = "Response"
            /\ full_response' = IF has_tool THEN D_TODO ELSE D_TEXT
            /\ tool_outputs' = IF has_tool THEN << <<D_TODO, HANDLER_TEXT>> >> ELSE <<>>
       ELSE /\ pc' = "prompt"
            /\ step' = "RecursionError"
            /\ UNCHANGED <<full_response, tool_outputs>>
    /\ UNCHANGED <<runVars, parserVars, callVars, toolVars, dispatchVars, messages, inputs,
                   requests, toolTurns, nlines, results>>

\* stream_response after the response: with tool outputs it calls itself,
\* without it returns the text of the response to its caller
ChainEnd ==
    /\ pc = "stream"
    /\ IF tool_outputs # <<>>
       THEN /\ pc' = "request"
            /\ step' = "FollowUp"
            /\ toolTurns' = toolTurns + 1
            /\ ret' = ret
       ELSE /\ pc' = "prompt"
            /\ step' = "Return"
            /\ toolTurns' = toolTurns
            /\ ret' = <<full_response>>
    /\ full_response' = <<>>
    /\ tool_outputs' = <<>>
    /\ UNCHANGED <<runVars, parserVars, callVars, arg, disk, db, dispatchVars, messages, inputs,
                   requests, nlines, results>>

SpecChain == InitChain /\ [][(\E has_tool \in BOOLEAN : ChainResponse(has_tool)) \/ ChainEnd]_vars

----------------------------------------------------------------------------
(* validate_path *)

\* GIT_ROOT, the project root /r/p, as its components below /
GIT_ROOT == << <<"r">>, <<"p">> >>

\* the segments a path argument is made of; an empty segment gives a leading,
\* a doubled or a trailing slash
PathSegs == {<<"a">>, <<".","g">>, <<".",".">>, <<".">>, <<>>, <<"p","2">>, <<"r">>, <<"p">>}

\* the components of a path string: what stands between the slashes, without
\* the empty ones and without "."
RECURSIVE PathParts(_)
PathParts(s) ==
    LET i == Find(s, <<"/">>, 0)
        first == IF i = -1 THEN s ELSE Upto(s, i)
        rest == IF i = -1 THEN <<>> ELSE PathParts(From(s, i + 1))
    IN  IF s = <<>> THEN <<>>
        ELSE IF first = <<>> \/ first = <<".">> THEN rest
        ELSE <<first>> \o rest

\* Path.resolve() of an absolute path on a file system without symbolic
\* links: ".." leaves a directory, and / is its own parent
RECURSIVE Resolve(_, _)
Resolve(parts, done) ==
    IF parts = <<>> THEN done
    ELSE IF Head(parts) = <<".",".">>
    THEN Resolve(Tail(parts), IF done = <<>> THEN <<>> ELSE Upto(done, Len(done) - 1))
    ELSE Resolve(Tail(parts), Append(done, Head(parts)))

is_dotfile(parts) ==
    \E k \in 1..Len(parts) :
        /\ StartsWith(parts[k], <<".">>)
        /\ parts[k] \notin {<<".">>, <<".",".">>}

\* validate_path without the exception of relative_to: the part of the path
\* after the first len(str(GIT_ROOT)) components is taken as the relative path
validate_path_NoRelativeTo(path) ==
    LET RECURSIVE Str(_)
        Str(parts) == IF parts = <<>> THEN <<>> ELSE <<"/">> \o Head(parts) \o Str(Tail(parts))
        str(parts) == IF parts = <<>> THEN <<"/">> ELSE Str(parts)
        lead == IF StartsWith(path, <<"/","/","/">>) THEN <<"/">>
                ELSE IF StartsWith(path, <<"/","/">>) THEN <<"/","/">>
                ELSE IF StartsWith(path, <<"/">>) THEN <<"/">> ELSE <<>>
        joined == IF PathParts(path) = <<>> THEN <<>> ELSE From(Str(PathParts(path)), 1)
        as_posix == IF lead = <<>> /\ joined = <<>> THEN <<".">> ELSE lead \o joined
        clean_path == IF StartsWith(as_posix, <<"/">>) THEN From(as_posix, 1) ELSE as_posix
        full_path == Resolve(IF StartsWith(clean_path, <<"/">>) THEN PathParts(clean_path)
                             ELSE GIT_ROOT \o PathParts(clean_path), <<>>)
    IN  IF ~StartsWith(str(full_path), str(GIT_ROOT))
        THEN Raise(<<"Path escapes project root">>)
        ELSE IF is_dotfile(From(full_path, Len(GIT_ROOT)))
        THEN Raise(<<"Access to dotfiles is not allowed">>)
        ELSE [ok |-> TRUE, path |-> full_path]

\* validate_path(path): the resolved path as its components, or an exception
validate_path(path) ==
    LET RECURSIVE Str(_)
        Str(parts) == IF parts = <<>> THEN <<>> ELSE <<"/">> \o Head(parts) \o Str(Tail(parts))
        \* str() of an absolute path
        str(parts) == IF parts = <<>> THEN <<"/">> ELSE Str(parts)
        \* Path(path): one or two leading slashes are kept, more are one
        lead == IF StartsWith(path, <<"/","/","/">>) THEN <<"/">>
                ELSE IF StartsWith(path, <<"/","/">>) THEN <<"/","/">>
                ELSE IF StartsWith(path, <<"/">>) THEN <<"/">> ELSE <<>>
        joined == IF PathParts(path) = <<>> THEN <<>> ELSE From(Str(PathParts(path)), 1)
        as_posix == IF lead = <<>> /\ joined = <<>> THEN <<".">> ELSE lead \o joined
        clean_path == IF StartsWith(as_posix, <<"/">>) THEN From(as_posix, 1) ELSE as_posix
        \* GIT_ROOT / clean_path: an absolute clean_path replaces the root
        full_path == Resolve(IF StartsWith(clean_path, <<"/">>) THEN PathParts(clean_path)
                             ELSE GIT_ROOT \o PathParts(clean_path), <<>>)
    IN  IF ~StartsWith(str(full_path), str(GIT_ROOT))
        THEN Raise(<<"Path escapes project root">>)
        ELSE IF Len(full_path) < Len(GIT_ROOT) \/ Upto(full_path, Len(GIT_ROOT)) # GIT_ROOT
        THEN Raise(<<"is not in the subpath of">>)
        ELSE IF is_dotfile(From(full_path, Len(GIT_ROOT)))
        THEN Raise(<<"Access to dotfiles is not allowed">>)
        ELSE [ok |-> TRUE, path |-> full_path]

\* the path arguments: up to MaxPathSegs segments with slashes between them
InitPath ==
    /\ LET RECURSIVE Slashed(_)
           Slashed(segs) == IF Len(segs) <= 1 THEN Flatten(segs)
                            ELSE Head(segs) \o <<"/">> \o Slashed(Tail(segs))
       IN  arg \in {Slashed(segs) : segs \in SeqsUpTo(PathSegs, MaxPathSegs)}
    /\ ret = <<>>
    /\ disk = <<>>
    /\ db = <<>>
    /\ NoRun
    /\ FreshParser
    /\ NoDecode
    /\ NoDispatch
    /\ NoSession

ValidatePath ==
    /\ ret = <<>>
    /\ ret' = <<validate_path(arg)>>
    /\ UNCHANGED <<arg, disk, db, runVars, parserVars, callVars, dispatchVars, sessionVars>>

SpecPath == InitPath /\ [][ValidatePath]_vars

----------------------------------------------------------------------------
(* file_edit *)

\* Path.read_text(): the text of the file's bytes; text mode reads the line
\* ends \r\n and \r as \n
RECURSIVE read_text(_)
read_text(bytes) ==
    IF bytes = <<>> THEN <<>>
    ELSE IF StartsWith(bytes, <<"\r","\n">>) THEN <<"\n">> \o read_text(From(bytes, 2))
    ELSE IF Head(bytes) = "\r" THEN <<"\n">> \o read_text(Tail(bytes))
    ELSE <<Head(bytes)>> \o read_text(Tail(bytes))

\* s.replace(old, new, 1)
ReplaceFirst(s, old, new) ==
    LET i == Find(s, old, 0)
    IN  IF i = -1 THEN s ELSE Upto(s, i) \o new \o From(s, i + Len(old))

\* file_edit(path, new_str, old_str) on the file d = [exists, bytes] that path
\* names, path being valid; old_str is <<>> when the parameter is left out
\* and <<s>> when it is given.  The result: what the call returns or raises
\* and the file afterwards (write_text writes \n as it is).
file_edit(d, new_str, old_str) ==
    IF old_str = <<>>
    THEN [ret |-> [ok |-> TRUE], disk |-> [exists |-> TRUE, bytes |-> new_str]]
    ELSE IF ~d.exists
    THEN [ret |-> Raise(<<"File not found">>), disk |-> d]
    ELSE LET content == read_text(d.bytes)
         IN  IF Find(content, old_str[1], 0) = -1
             THEN [ret |-> Raise(<<"old_str not found in file">>), disk |-> d]
             ELSE [ret |-> [ok |-> TRUE],
                   disk |-> [exists |-> TRUE,
                             bytes |-> ReplaceFirst(content, old_str[1], new_str)]]

\* a file of up to MaxFileLen characters, or none, and the arguments of a call
InitEdit ==
    /\ disk \in {[exists |-> FALSE, bytes |-> <<>>]}
               \cup {[exists |-> TRUE, bytes |-> b] : b \in SeqsUpTo({"a", "b", "\r", "\n"}, MaxFileLen)}
    /\ arg \in {[new_str |-> n, old_str |-> o] :
                   n \in {<<>>, <<"c">>, <<"a","b">>},
                   o \in {<<>>} \cup {<<x>> : x \in SeqsUpTo({"a", "b", "\r", "\n"}, 2)}}
    /\ ret = <<>>
    /\ db = <<>>
    /\ NoRun
    /\ FreshParser
    /\ NoDecode
    /\ NoDispatch
    /\ NoSession

FileEdit ==
    /\ ret = <<>>
    /\ \E r \in {file_edit(disk, arg.new_str, arg.old_str)} :
          /\ ret' = <<r.ret>>
          /\ disk' = r.disk
    /\ UNCHANGED <<arg, db, runVars, parserVars, callVars, dispatchVars, sessionVars>>

SpecEdit == InitEdit /\ [][FileEdit]_vars

----------------------------------------------------------------------------
(* index_codebase (plugins/codebase_index.py) *)

\* the files of the project that match path_pattern, in the order of the walk
IndexFiles == <<"a.py", "b.py">>

\* what a file can hold: whether ast.parse accepts it, the symbols it defines
\* and whether it reads a name (PythonSymbolExtractor.references not empty)
Contents ==
    {[parses |-> FALSE, symbols |-> <<>>, refs |-> FALSE],
     [parses |-> TRUE, symbols |-> <<"f">>, refs |-> FALSE],
     [parses |-> TRUE, symbols |-> <<"g">>, refs |-> FALSE],
     [parses |-> TRUE, symbols |-> <<"f">>, refs |-> TRUE]}

\* the database _ensure_db leaves: the tables files and symbols (imports is
\* filled like symbols); the statement that creates the table references
\* is refused by SQLite, so that table never exists
EmptyDb == [files |-> {}, symbols |-> <<>>]

\* needs_indexing(path): no record, or the file is newer than its record
needs_indexing(d, path, file) ==
    \/ ~\E r \in d.files : r.path = path
    \/ \E r \in d.files : r.path = path /\ file.mtime > r.mtime

\* index_python_file(path): the database afterwards and whether it raises.
\* A file that does not parse is left without a record; a file with
\* references fails at INSERT INTO references before the commit.
index_python_file(d, path, file) ==
    IF ~file.parses THEN [db |-> d, raised |-> FALSE]
    ELSE IF file.refs THEN [db |-> d, raised |-> TRUE]
    ELSE LET kept == {r \in d.files : r.path # path}
             ids == {r.id : r \in kept}
             file_id == IF ids = {} THEN 1 ELSE (CHOOSE i \in ids : \A j \in ids : j <= i) + 1
         IN  [db |-> [files |-> kept \cup {[id |-> file_id, path |-> path, mtime |-> file.mtime]},
                      symbols |-> d.symbols \o
                          [k \in 1..Len(file.symbols) |-> [file_id |-> file_id, name |-> file.symbols[k]]]],
              raised |-> FALSE]

\* index_codebase(force_rebuild): the counts it reports and the database
\* afterwards.  With force_rebuild the database file is removed and
\* _ensure_db, called outside the try, raises.
index_codebase(d, files, force) ==
    LET RECURSIVE Loop(_, _)
        Loop(k, acc) ==
            IF k > Len(IndexFiles) THEN acc
            ELSE LET path == IndexFiles[k]
                 IN  IF needs_indexing(acc.db, path, files[path])
                     THEN LET r == index_python_file(acc.db, path, files[path])
                          IN  IF r.raised
                              THEN Loop(k + 1, [acc EXCEPT !.errors = @ + 1])
                              ELSE Loop(k + 1, [acc EXCEPT !.db = r.db, !.indexed = @ + 1])
                     ELSE Loop(k + 1, [acc EXCEPT !.skipped = @ + 1])
    IN  IF force
        THEN [db |-> EmptyDb, ret |-> Raise(<<"near \"references\": syntax error">>)]
        ELSE LET acc == Loop(1, [db |-> d, indexed |-> 0, skipped |-> 0, errors |-> 0])
             IN  [db |-> acc.db,
                  ret |-> [ok |-> TRUE, indexed |-> acc.indexed, skipped |-> acc.skipped,
                           errors |-> acc.errors]]

InitIndex ==
    /\ disk \in [{IndexFiles[k] : k \in 1..Len(IndexFiles)} -> {[c EXCEPT !.mtime = 1] :
                      c \in {[mtime |-> 0, parses |-> x.parses, symbols |-> x.symbols, refs |-> x.refs] :
                                 x \in Contents}}]
    /\ db = EmptyDb
    /\ arg = <<>>
    /\ ret = <<>>
    /\ NoRun
    /\ FreshParser
    /\ NoDecode
    /\ NoDispatch
    /\ NoSession

\* the tool call index_codebase
IndexCodebase(force) ==
    /\ \E r \in {index_codebase(db, disk, force)} :
          /\ db' = r.db
          /\ ret' = <<r.ret>>
    /\ arg' = <<"index_codebase", force>>
    /\ UNCHANGED <<disk, runVars, parserVars, callVars, dispatchVars, sessionVars>>

\* a file of the project is written: new content, later modification time
WriteFile(path, c) ==
    /\ disk[path].mtime < MaxMtime
    /\ disk' = [disk EXCEPT ![path] = [mtime |-> @.mtime + 1, parses |-> c.parses,
                                        symbols |-> c.symbols, refs |-> c.refs]]
    /\ arg' = <<"write", path>>
    /\ ret' = <<>>
    /\ UNCHANGED <<db, runVars, parserVars, callVars, dispatchVars, sessionVars>>

SpecIndex ==
    InitIndex /\ [][\/ \E force \in BOOLEAN : IndexCodebase(force)
                    \/ \E path \in DOMAIN disk, c \in Contents : WriteFile(path, c)]_vars

----------------------------------------------------------------------------
(* Properties of the block parser *)

Count(s, pat) == Cardinality({i \in 0..(Len(s) - Len(pat)) : MatchAt(s, pat, i)})

IsSubstring(b, s) == \E i \in 0..(Len(s) - Len(b)) : MatchAt(s, b, i)

\* Reading s from index i with d blocks open: the index just after the end
\* marker that closes the outermost of them, or -1 if there is none.
RECURSIVE MatchingEnd(_, _, _)
MatchingEnd(s, i, d) ==
    IF i >= Len(s) THEN -1
    ELSE IF MatchAt(s, TOOL_BEGIN, i) THEN MatchingEnd(s, i + Len(TOOL_BEGIN), d + 1)
    ELSE IF MatchAt(s, TOOL_END, i)
         THEN IF d = 1 THEN i + Len(TOOL_END)
              ELSE MatchingEnd(s, i + Len(TOOL_END), d - 1)
    ELSE MatchingEnd(s, i + 1, d)

\* b is a begin marker, its content, and the end marker that matches it
WellFormedBlock(b) ==
    /\ StartsWith(b, TOOL_BEGIN)
    /\ MatchingEnd(b, Len(TOOL_BEGIN), 1) = Len(b)

\* the texts of the events, concatenated in emission order
RECURSIVE EventText(_)
EventText(evs) ==
    IF evs = <<>> THEN <<>>
    ELSE Head(evs).tool_content \o Head(evs).text \o EventText(Tail(evs))

\* the whole text went to a fresh parser in one feed call
SingleFeedDone == nfeeds = 1 /\ pos = Len(text)

\* C1: Chunk-boundary independence.  Feeding a text in chunks and then
\* flushing yields the same sequence of events and the same flush remainder
\* as feeding the whole text in one call and then flushing.
C1_ChunkIndependence ==
    flushed =>
        LET one == Feed(ParserInit, text)
        IN  /\ events = one.results
            /\ remaining = one.state.buffer

\* C5: Nesting correctness.  When a text that opens with a block holding
\* k >= 1 nested begin markers, each closed before the block's own end marker,
\* is fed in one call, exactly one tool-block event covers the block: it is
\* the span from the outer begin marker through the (k+1)-th end marker,
\* inner markers included, and nothing of the block is emitted otherwise.
C5_NestingSingleFeed ==
    LET m == MatchingEnd(text, Len(TOOL_BEGIN), 1)
        k == Count(Upto(text, m), TOOL_BEGIN) - 1
    IN  (SingleFeedDone /\ StartsWith(text, TOOL_BEGIN) /\ m # -1 /\ k >= 1) =>
            /\ events # <<>>
            /\ events[1] = [tool_content |-> Upto(text, m), text |-> <<>>]
            /\ Count(events[1].tool_content, TOOL_END) = k + 1
            /\ EventText(events) \o (IF flushed THEN remaining ELSE buffer) = text

\* C5 witness: a block with two nested begin markers, fed at once, came out whole
C5_Witness ==
    /\ SingleFeedDone
    /\ Count(text, TOOL_BEGIN) = 3
    /\ MatchingEnd(text, Len(TOOL_BEGIN), 1) = Len(text)
    /\ events = <<[tool_content |-> text, text |-> <<>>]>>

\* C6: Every tool-block event, for any text and any chunking, is a contiguous
\* part of the text fed so far that starts with a begin marker and ends with
\* the end marker structurally matching it.
C6_BlocksWellFormed ==
    \A k \in 1..Len(events) :
        events[k].tool_content # None =>
            /\ IsSubstring(events[k].tool_content, Upto(text, pos))
            /\ WellFormedBlock(events[k].tool_content)

\* a tool-block event is among the events from index from + 1 on
ToolEventAfter(evs, from) ==
    \E k \in (from + 1)..Len(evs) : evs[k].tool_content # None

\* C16: Parser depth invariants.  After every feed and flush call
\* nesting_depth >= 0, it is >= 1 whenever the parser is inside a block, and a
\* call that emits a tool-block event and ends outside a block ends with
\* nesting_depth exactly 0.
C16_DepthInvariants ==
    [][/\ nesting_depth' >= 0
       /\ in_tool' => nesting_depth' >= 1
       /\ (ToolEventAfter(events', Len(events)) /\ ~in_tool') => nesting_depth' = 0
       /\ flushed' => nesting_depth' = 0]_vars

\* C16 witness: a feed call counted a nested block in and out and ended
\* inside the outer block, at depth 1
C16_Witness ==
    /\ nfeeds = 1
    /\ text = TOOL_BEGIN \o TOOL_BEGIN \o TOOL_END
    /\ pos = Len(text)
    /\ in_tool
    /\ nesting_depth = 1
    /\ events = <<>>

\* the events of a run and the text flush returned, in order, as items
\* <<"tool", block>> and <<"text", t>>, consecutive texts joined into one
RECURSIVE Merge(_, _, _)
Merge(evs, acc, last) ==
    IF evs = <<>>
    THEN IF acc \o last = <<>> THEN <<>> ELSE << <<"text", acc \o last>> >>
    ELSE IF Head(evs).tool_content # None
    THEN (IF acc = <<>> THEN <<>> ELSE << <<"text", acc>> >>)
         \o << <<"tool", Head(evs).tool_content>> >>
         \o Merge(Tail(evs), <<>>, last)
    ELSE Merge(Tail(evs), acc \o Head(evs).text, last)

\* s is T0 B1 T1 ... Bn Tn: every begin marker opens a block that is closed
\* before the next begin marker
RECURSIVE Simple(_)
Simple(s) ==
    LET b == Find(s, TOOL_BEGIN, 0)
        e == Find(s, TOOL_END, b + Len(TOOL_BEGIN))
        nb == Find(s, TOOL_BEGIN, b + Len(TOOL_BEGIN))
    IN  b = -1 \/ (e # -1 /\ (nb = -1 \/ nb > e) /\ Simple(From(s, e + Len(TOOL_END))))

\* the items T0, B1, T1, ..., Bn, Tn of such a text, empty texts left out
RECURSIVE InOrder(_)
InOrder(s) ==
    LET b == Find(s, TOOL_BEGIN, 0)
        e == Find(s, TOOL_END, b + Len(TOOL_BEGIN))
    IN  IF b = -1
        THEN IF s = <<>> THEN <<>> ELSE << <<"text", s>> >>
        ELSE (IF b = 0 THEN <<>> ELSE << <<"text", Upto(s, b)>> >>)
             \o << <<"tool", Slice(s, b, e + Len(TOOL_END))>> >>
             \o InOrder(From(s, e + Len(TOOL_END)))

\* position c lies strictly inside the marker pat that starts at index i
StrictlyInside(c, i, pat) == i < c /\ c < i + Len(pat)

\* C17: Split markers.  For a text with one un-nested block, cut into two
\* chunks strictly inside the begin marker or strictly inside the end marker,
\* the two feeds and the flush yield the block as one tool-block event and the
\* plain text around it, in order, as the single-chunk run does: nothing of a
\* marker that is completed later comes out as plain text.
C17_SplitMarkers ==
    [][LET b == Find(text, TOOL_BEGIN, 0)
           e == Find(text, TOOL_END, b + Len(TOOL_BEGIN))
       IN  (/\ nfeeds = 1 /\ nfeeds' = 2 /\ pos' = Len(text)
            /\ Count(text, TOOL_BEGIN) = 1 /\ Simple(text)
            /\ (StrictlyInside(pos, b, TOOL_BEGIN) \/ StrictlyInside(pos, e, TOOL_END)))
           => LET one == Feed(ParserInit, text)
              IN  /\ Merge(events', <<>>, Flush(Parser').remaining) = InOrder(text)
                  /\ Merge(events', <<>>, Flush(Parser').remaining)
                        = Merge(one.results, <<>>, Flush(one.state).remaining)]_vars

\* C17 witness: a text with plain text around one block was cut inside the
\* begin marker, and the block came out as an event of the second feed
C17_Witness ==
    /\ nfeeds = 2
    /\ pos = Len(text)
    /\ Count(text, TOOL_BEGIN) = 1
    /\ Find(text, TOOL_BEGIN, 0) = 12
    /\ Len(events) = 3
    /\ events[1].tool_content = None
    /\ events[2].tool_content = None
    /\ events[1].text \o events[2].text = Upto(text, 12)
    /\ events[3].tool_content = From(text, 12)

\* C18: Single-chunk parsing.  For a text T0 B1 T1 ... Bn Tn of closed blocks
\* without nested markers and texts without begin marker, one feed of the
\* whole text and the flush yield T0, B1, T1, ..., Bn, Tn in order: every
\* block as one tool-block event verbatim, every non-empty text as plain
\* text, the text after the last block possibly returned by flush.
C18_SingleChunk ==
    (SingleFeedDone /\ flushed /\ Simple(text) /\ Count(text, TOOL_BEGIN) >= 1) =>
        /\ Merge(events, <<>>, remaining) = InOrder(text)
        /\ Count(remaining, TOOL_BEGIN) = 0

\* C18 witness: two blocks with a text between them came out of one feed
C18_Witness ==
    /\ SingleFeedDone
    /\ flushed
    /\ text = TOOL_BEGIN \o TOOL_END \o <<"x">> \o TOOL_BEGIN \o TOOL_END
    /\ events = <<[tool_content |-> TOOL_BEGIN \o TOOL_END, text |-> <<>>],
                  [tool_content |-> None, text |-> <<"x">>],
                  [tool_content |-> TOOL_BEGIN \o TOOL_END, text |-> <<>>]>>
    /\ remaining = <<>>

\* the last begin marker of s that no end marker closes: its index, or -1
RECURSIVE OpenBlock(_, _)
OpenBlock(s, from) ==
    LET b == Find(s, TOOL_BEGIN, from)
        m == MatchingEnd(s, b + Len(TOOL_BEGIN), 1)
    IN  IF b = -1 THEN -1
        ELSE IF m = -1 THEN b
        ELSE OpenBlock(s, m)

\* C19: Unterminated block.  When flush is called while a block is open, no
\* event holds anything of the block, flush returns the whole span from the
\* begin marker of the block on, and the parser is in its initial state
\* afterwards, so that a second flush returns the empty string.
C19_UnterminatedBlock ==
    [][(~flushed /\ flushed') =>
            /\ OpenBlock(text, 0) # -1 => in_tool
            /\ in_tool =>
                /\ remaining' = buffer
                /\ StartsWith(remaining', TOOL_BEGIN)
                /\ EventText(events') \o remaining' = text
                /\ events' = events
                /\ OpenBlock(text, 0) # -1 =>
                        Len(remaining') >= Len(text) - OpenBlock(text, 0)
                /\ Parser' = ParserInit
                /\ Flush(Parser').remaining = <<>>]_vars

\* C19 witness: a text ended inside a block that follows a closed one; flush
\* returned the open block
C19_Witness ==
    /\ flushed
    /\ text = TOOL_BEGIN \o TOOL_END \o TOOL_BEGIN
    /\ remaining = TOOL_BEGIN
    /\ events = <<[tool_content |-> TOOL_BEGIN \o TOOL_END, text |-> <<>>]>>
    /\ Parser = ParserInit

----------------------------------------------------------------------------
(* Properties of the decoder *)

\* the call keeps the boundary identifier out of its names and values
\* every section of the call has a name declaration
AllNamed == \A k \in 1..Len(call.params) : call.params[k][1] # None

IdNotInCall ==
    /\ ~IsSubstring(call.bid, call.tool_name)
    /\ \A k \in 1..Len(call.params) :
          /\ ~IsSubstring(call.bid, call.params[k][1])
          /\ ~IsSubstring(call.bid, call.params[k][2])

\* C7: Round-trip decode.  A call whose names and values do not contain the
\* boundary identifier, encoded in the documented format and decoded, comes
\* back with the same tool name and the same parameter values, whitespace
\* and empty values included.
C7_RoundTrip ==
    (decoded # <<>> /\ call.has_name /\ AllNamed /\ IdNotInCall) =>
        /\ decoded[1].ok
        /\ decoded[1].tool_name = call.tool_name
        /\ decoded[1].params = call.params

\* C9: parse_mime_tool_call fails when the block has no tool_name section and
\* when the section's value is empty or only whitespace.
C9_MissingToolName ==
    (decoded # <<>> /\ (~call.has_name \/ Strip(call.tool_name) = <<>>)) =>
        ~decoded[1].ok

\* C20: parse_mime_tool_call rejects with an error every block that contains
\* a section without a name declaration; it never returns a result in which
\* that section is left out.
C20_NamelessSectionRejected ==
    (decoded # <<>> /\ ~AllNamed) => ~decoded[1].ok

----------------------------------------------------------------------------
(* Properties of the dispatcher *)

GatedNames ==
    {<<"f","i","l","e","_","e","d","i","t">>,
     <<"f","i","l","e","_","m","o","v","e">>,
     <<"f","i","l","e","_","d","e","l","e","t","e">>,
     <<"s","e","a","r","c","h","_","r","e","p","l","a","c","e">>,
     <<"g","i","t","_","a","d","d">>,
     <<"g","i","t","_","c","o","m","m","i","t">>}

\* C3: Permission gate.  A dispatch of file_edit, file_move, file_delete,
\* search_replace, git_add or git_commit in planning mode returns the fixed
\* refusal, an error text naming the tool as disabled, and calls no handler,
\* whatever the parameters.
C3_PermissionGate ==
    (last_dispatch # <<>> /\ planning_mode /\ call.has_name /\ call.bid # <<>>
        /\ call.tool_name \in GatedNames) =>
        /\ last_dispatch[1].result = ERR_MARK \o <<" ">> \o call.tool_name \o DISABLED_MSG
        /\ ~last_dispatch[1].raised
        /\ ~last_dispatch[1].called
        /\ invoked = <<>>

\* C3 witness: git_commit with its argument was refused in planning mode
C3_Witness ==
    /\ last_dispatch # <<>>
    /\ planning_mode
    /\ call.tool_name = <<"g","i","t","_","c","o","m","m","i","t">>
    /\ call.params = << <<<<"m","e","s","s","a","g","e">>, ARG>> >>
    /\ StartsWith(last_dispatch[1].result, ERR_MARK)
    /\ invoked = <<>>

\* C4: In planning mode no dispatch calls a handler that creates, overwrites,
\* moves or deletes a file of the project.
C4_NoWritesWhilePlanning ==
    \A k \in 1..Len(invoked) : invoked[k].planning_mode => ~invoked[k].wrote

\* C10: execute_tool never raises.  When decoding the block fails, when the
\* handler raises, or when the decoded parameters do not match the handler's
\* arguments, it returns an error text that carries the message of the failure.
ParamMismatch(c) ==
    LET names == {c.params[k][1] : k \in 1..Len(c.params)}
        t == Tool(c.tool_name)
    IN  \/ names \ (t.required \cup t.optional) # {}
        \/ t.required \ names # {}

C10_NeverRaises ==
    last_dispatch # <<>> =>
        LET r == last_dispatch[1]
            d == parse_mime_tool_call(Encode(call))
            Failed(msg) == r.result = ERR_MARK \o EXEC_ERROR_MSG \o msg
        IN  /\ ~r.raised
            /\ ~d.ok => Failed(d.error)
            /\ r.did = "raise" => Failed(HANDLER_EXCEPTION)
            /\ (d.ok /\ call.tool_name \in RegisteredNames
                    /\ ~(planning_mode /\ call.tool_name \in GatedNames)
                    /\ ParamMismatch(call)) => Failed(TYPE_ERROR)

\* C10 witness: a handler raised and its message came back as an error text
C10_Witness ==
    /\ last_dispatch # <<>>
    /\ last_dispatch[1].did = "raise"
    /\ ~last_dispatch[1].raised
    /\ last_dispatch[1].result = ERR_MARK \o EXEC_ERROR_MSG \o HANDLER_EXCEPTION

\* C11: Unknown-tool safety.  execute_tool on a block whose decoded tool name
\* is not registered returns the error text that names the unknown tool; it
\* does not raise and calls no handler.
C11_UnknownTool ==
    last_dispatch # <<>> =>
        \A d \in {parse_mime_tool_call(Encode(call))} :
            (d.ok /\ d.tool_name \notin RegisteredNames) =>
                /\ last_dispatch[1].result = ERR_MARK \o UNKNOWN_MSG \o d.tool_name
                /\ ~last_dispatch[1].raised
                /\ ~last_dispatch[1].called
                /\ invoked = <<>>

\* C11 witness: a call of an unregistered tool, with a parameter, was answered
\* with the unknown-tool error
C11_Witness ==
    /\ last_dispatch # <<>>
    /\ call.tool_name = UNKNOWN_TOOL
    /\ call.params # <<>>
    /\ last_dispatch[1].result = ERR_MARK \o UNKNOWN_MSG \o UNKNOWN_TOOL
    /\ ~last_dispatch[1].called

----------------------------------------------------------------------------
(* Properties of the session *)

\* C21: Example tool calls inside parameter content.  When a streamed block
\* has a parameter value that holds a complete example block with a different
\* boundary ID, exactly one dispatch happens, for the outer tool, and the
\* decoded parameter value is the example text verbatim, markers included.
C21_ExampleInContent ==
    /\ Len(tool_outputs) <= 1
    /\ Len(invoked) <= 1
    /\ (pc = "stream" /\ pos = Len(text) /\ text # <<>>) => Len(tool_outputs) = 1
    /\ \A k \in 1..Len(tool_outputs) :
          \E id \in ExampleIds :
              /\ EndsWith(text, OuterBlock(id))
              /\ tool_outputs[k][1] = OuterBlock(id)
              /\ parse_mime_tool_call(tool_outputs[k][1]) =
                    [ok |-> TRUE, tool_name |-> <<"t","o","d","o","_","w","r","i","t","e">>,
                     params |-> << <<<<"c","o","n","t","e","n","t">>, Example(id)>> >>]

\* C2: Error-triggered stream abandonment.  Once a tool call of a response has
\* returned an error, no further text of that response is fed to the parser
\* and no further block of it is dispatched: the response is left.
C2_AbandonOnError ==
    [][(pc \in {"stream", "results"} /\ ErrorInResponse) =>
            \/ step' \in {"EndStream", "StreamFails", "Interrupt", "InterruptCommit"}
            \/ full_response' = full_response /\ tool_outputs' = tool_outputs]_vars

\* C8: Follow-up recursion.  A response that led to at least one tool dispatch
\* is followed by exactly one further completion request, whether the tool
\* results are successes or errors; a response that led to none is followed by
\* no further request and ends the user turn.
C8_FollowUp ==
    [][/\ (pc = "stream" /\ step' = "EndStream") =>
              IF tool_outputs # <<>>
              THEN pc' = "request" /\ toolTurns' = toolTurns + 1
              ELSE pc' = "prompt" /\ toolTurns' = toolTurns
       /\ pc = "request" => requests' = requests + 1 /\ pc' # "request"
       /\ (pc # "request" /\ step' # "UserInput") => requests' = requests]_vars

\* C8 witness: a response whose only tool call failed was followed by a request
C8_Witness ==
    /\ step = "Request"
    /\ toolTurns = 1
    /\ requests = 2
    /\ Len(messages) = 4
    /\ messages[3] = [role |-> "assistant", content |-> D_NOBID]
    /\ messages[4] = [role |-> "user",
                      content |-> ToolOutputContent(ERR_MARK \o EXEC_ERROR_MSG \o MISSING_BOUNDARY)]

\* C12: Every completion request, the first of a user turn and every follow-up
\* after tool execution, carries a trimmed history: its estimated size is at
\* most max_tokens, or it holds no more than two messages.
Trimmed(msgs) == TotalChars(msgs) \div 4 <= max_tokens \/ Len(msgs) <= 2

C12_RequestsTrimmed == pc = "request" => Trimmed(messages)

\* C13: Rollback on request failure.  When the request of a user turn fails
\* (the post fails, or reading the stream fails), the user message that
\* started the turn is no longer in the log.
C13_RollbackOnFailure ==
    (step \in {"RequestFails", "StreamFails"} /\ toolTurns = 0) =>
        messages[Len(messages)] # [role |-> "user", content |-> USER_INPUT]

\* C14: Cancellation.  After a user interrupt the orchestrator is back at the
\* prompt and the log holds no partial tool commit: every assistant message
\* that holds a tool block is immediately followed by the user message that
\* holds the result of that block.
TOOL_OUTPUT_HDR == <<"T","o","o","l"," ","o","u","t","p","u","t",":","\n">>

PairsComplete(msgs) ==
    \A i \in 1..Len(msgs) :
        (msgs[i].role = "assistant" /\ StartsWith(msgs[i].content, TOOL_BEGIN)) =>
            /\ i < Len(msgs)
            /\ msgs[i + 1].role = "user"
            /\ StartsWith(msgs[i + 1].content, TOOL_OUTPUT_HDR)

C14_Cancellation ==
    step \in {"Interrupt", "InterruptCommit"} => (pc = "prompt" /\ PairsComplete(messages))

\* C15: For the tool calls dispatched in a response, the log is extended by
\* exactly one pair per dispatched call, in dispatch order: an assistant
\* message with the raw block verbatim, then a user message with the status
\* and the output of the result; nothing else is appended before the
\* follow-up request.
CarriesResult(content, output) ==
    /\ StartsWith(content, TOOL_OUTPUT_HDR)
    /\ IsSubstring(<<"\"","s","t","a","t","u","s","\"",":"," ","\"">>
                   \o (IF StartsWith(output, ERR_MARK) THEN ERROR ELSE SUCCESS) \o <<"\"">>,
                   content)
    /\ IsSubstring(<<"\"","o","u","t","p","u","t","\"",":"," ","\"">>
                   \o JsonEscape(output) \o <<"\"">>, content)

C15_OnePairPerCall ==
    [][/\ step' = "ExecuteBlock" =>
            /\ Len(tool_outputs') = Len(tool_outputs) + 1
            /\ tool_outputs'[Len(tool_outputs')] =
                    <<Head(results).tool_content, last_dispatch'[1].result>>
            /\ Upto(tool_outputs', Len(tool_outputs)) = tool_outputs
            /\ messages' = messages
       /\ (step' = "EndStream" /\ tool_outputs # <<>>) =>
            /\ Len(messages') = Len(messages) + 2 * Len(tool_outputs)
            /\ Upto(messages', Len(messages)) = messages
            /\ \A k \in 1..Len(tool_outputs) :
                    /\ messages'[Len(messages) + 2 * k - 1] =
                            [role |-> "assistant", content |-> tool_outputs[k][1]]
                    /\ messages'[Len(messages) + 2 * k].role = "user"
                    /\ CarriesResult(messages'[Len(messages) + 2 * k].content,
                                     tool_outputs[k][2])
            /\ pc' = "request"
       /\ step' \in {"RecvLine", "SkipLine", "ShowText", "Request"} => messages' = messages]_vars

\* C15 witness: two calls of one response, the second one failed, were
\* committed as two pairs in dispatch order
C15_Witness ==
    /\ step = "EndStream"
    /\ pc = "request"
    /\ Len(messages) = 6
    /\ messages[3] = [role |-> "assistant", content |-> D_TODO]
    /\ messages[4] = [role |-> "user", content |-> ToolOutputContent(HANDLER_TEXT)]
    /\ messages[5] = [role |-> "assistant", content |-> D_NOBID]
    /\ messages[6].role = "user"

\* the descriptions of the tools that planning mode disables
MutatingDescriptions ==
    {"## file_edit", "## file_move", "## file_delete", "## search_replace",
     "## git_add", "## git_commit"}

Elements(s) == {s[k] : k \in 1..Len(s)}

\* C22: The tool descriptions of the system prompt leave out the mutating
\* tools in planning mode, and in normal mode every registered tool is
\* described.
C22_PromptDescriptions ==
    pc # "off" =>
        /\ planning_mode => Elements(messages[1].content) \cap MutatingDescriptions = {}
        /\ ~planning_mode =>
              Cardinality(Elements(messages[1].content) \cap Elements(Tail(get_tools_description)))
                  = Cardinality(RegisteredNames)

----------------------------------------------------------------------------
(* Properties of the tool functions *)

\* C24: Path confinement.  validate_path either raises or returns a resolved
\* path inside the project root (the root's components are a prefix of the
\* path's) none of whose components below the root starts with a dot; also
\* for '..' components, a leading '/' and a sibling directory whose name
\* begins with the root directory's name.
C24_PathConfinement ==
    (ret # <<>> /\ ret[1].ok) =>
        /\ Len(ret[1].path) >= Len(GIT_ROOT)
        /\ Upto(ret[1].path, Len(GIT_ROOT)) = GIT_ROOT
        /\ \A k \in (Len(GIT_ROOT) + 1)..Len(ret[1].path) : Head(ret[1].path[k]) # "."

\* '../p2/a' names a file of the sibling /r/p2, whose name begins with the
\* root's name: the text test lets it pass and relative_to refuses it
C24_Witness ==
    /\ arg = <<".",".","/","p","2","/","a">>
    /\ ret = <<Raise(<<"is not in the subpath of">>)>>

\* C25: file_edit with old_str given replaces exactly the first occurrence of
\* old_str in the file by new_str and leaves all other content as it is; if
\* the file does not exist or old_str does not occur in it, the call fails
\* and the file system is unchanged.  Without old_str the file's content
\* becomes exactly new_str, the file being created when absent.
C25_FileEdit ==
    [][(ret = <<>> /\ ret' # <<>>) =>
          IF arg.old_str = <<>>
          THEN ret'[1].ok /\ disk' = [exists |-> TRUE, bytes |-> arg.new_str]
          ELSE IF disk.exists /\ Find(disk.bytes, arg.old_str[1], 0) # -1
          THEN /\ ret'[1].ok
               /\ disk' = [exists |-> TRUE,
                           bytes |-> ReplaceFirst(disk.bytes, arg.old_str[1], arg.new_str)]
          ELSE ~ret'[1].ok /\ disk' = disk]_vars

C30_Conservation ==
    /\ ~flushed => EventText(events) \o buffer = Upto(text, pos)
    /\ flushed => EventText(events) \o remaining = text /\ buffer = <<>>

\* C30 witness: a block and a character after it, fed in two calls; the
\* character was held back and came out of flush
C30_Witness ==
    /\ flushed
    /\ nfeeds = 2
    /\ text = TOOL_BEGIN \o TOOL_END \o <<"x">>
    /\ events = <<[tool_content |-> TOOL_BEGIN \o TOOL_END, text |-> <<>>]>>
    /\ remaining = <<"x">>

----------------------------------------------------------------------------
(* Properties of a response with tool calls *)

\* C27: when a tool block has been dispatched, its raw block and its result
\* are in the message log before a further line of the same response is
\* consumed, so that a transport error later in the response never leaves an
\* executed tool call out of the log.
C27_CommitBeforeResume ==
    [][step' \in {"RecvLine", "SkipLine", "StreamFails"} =>
          \A k \in 1..Len(tool_outputs) : \E i \in 1..(Len(messages) - 1) :
              /\ messages[i] = [role |-> "assistant", content |-> tool_outputs[k][1]]
              /\ messages[i + 1] =
                     [role |-> "user", content |-> ToolOutputContent(tool_outputs[k][2])]]_vars

\* the tool blocks among the results of a feed, in their order
ToolBlocks(rs) ==
    LET RECURSIVE B(_)
        B(r) == IF r = <<>> THEN <<>>
                ELSE IF Head(r).tool_content = None THEN B(Tail(r))
                ELSE <<Head(r).tool_content>> \o B(Tail(r))
    IN  B(rs)

\* C28: in a response whose tool results are all successes, the blocks
\* dispatched so far followed by the blocks still to be worked through are
\* the blocks that end in the text received, in the order in which they end
\* there: each is dispatched once and in order.  No increment is fed while a
\* result of the last feed is still to be worked through, a dispatch adds
\* one tool output and calls at most one handler.
C28_SequentialDispatch ==
    [][(pc' \in {"stream", "results"} /\ ~ErrorInResponse') =>
          /\ [k \in 1..Len(tool_outputs') |-> tool_outputs'[k][1]] \o ToolBlocks(results')
                 = ToolBlocks(Feed(ParserInit, full_response').results)
          /\ pc' = "stream" => results' = <<>>
          /\ step' \in {"RecvLine", "SkipLine"} => results = <<>>
          /\ step' = "ExecuteBlock" =>
                 /\ results # <<>>
                 /\ tool_outputs' = Append(tool_outputs, <<Head(results).tool_content,
                                                            tool_outputs'[Len(tool_outputs')][2]>>)
                 /\ results' = Tail(results)
                 /\ Len(invoked') <= Len(invoked) + 1]_vars

C28_Witness ==
    /\ pc = "stream"
    /\ Len(tool_outputs) = 2
    /\ tool_outputs[1][1] = D_DELETE
    /\ tool_outputs[2][1] = D_TODO
    /\ ~ErrorInResponse

----------------------------------------------------------------------------
(* Properties of manage_context *)

\* C29: manage_context keeps the first message and the most recent one and
\* removes only the n oldest messages after the first, the rest staying in
\* order; n is 0 when the estimate (characters divided by 4) of the whole log
\* is at most max_tokens, and n is the least number for which the estimate
\* of the result is at most max_tokens or two messages remain.
C29_ManageContext ==
    [][step' = "UserInput" =>
          LET before == Append(messages, [role |-> "user", content |-> USER_INPUT])
              Trim(n) == <<before[1]>> \o SubSeq(before, 2 + n, Len(before))
              Done(n) == TotalChars(Trim(n)) \div 4 <= max_tokens \/ Len(Trim(n)) = 2
          IN  /\ messages'[1] = before[1]
              /\ messages'[Len(messages')] = before[Len(before)]
              /\ \E n \in 0..(Len(before) - 2) :
                    /\ messages' = Trim(n)
                    /\ Done(n)
                    /\ \A m \in 0..(n - 1) : ~Done(m)
              /\ TotalChars(before) \div 4 <= max_tokens => messages' = before]_vars

\* the second user message made the log too long: the first user message
\* and the first tool block were removed
C29_Witness ==
    /\ step = "UserInput"
    /\ inputs = 2
    /\ Len(messages) > 2
    /\ messages[2].role = "user"
    /\ messages[2].content # USER_INPUT

----------------------------------------------------------------------------
(* Properties of the parser state *)

\* the index just after the last end marker in s, or 0 when s holds none
LastEnd(s) ==
    LET ends == {i \in 0..(Len(s) - Len(TOOL_END)) : MatchAt(s, TOOL_END, i)}
    IN  IF ends = {} THEN 0
        ELSE (CHOOSE i \in ends : \A j \in ends : j <= i) + Len(TOOL_END)

\* C31: Depth counter across feed calls.  Whenever feed returns with the
\* parser inside a block, nesting_depth is 1 plus the nested begin markers
\* minus the end markers among the markers of the buffer up to its last
\* complete end marker, however many feed calls delivered the buffer.
C31_DepthAcrossFeeds ==
    (in_tool /\ ~flushed) =>
        LET counted == Upto(buffer, LastEnd(buffer))
        IN  nesting_depth =
                IF counted = <<>> THEN 1
                ELSE Count(counted, TOOL_BEGIN) - Count(counted, TOOL_END)

\* C32: Parser state after every feed call.  Either the parser is inside a
\* block, the buffer starts with the begin marker and nesting_depth >= 1; or
\* it is outside a block, nesting_depth is 0 and the buffer holds at most as
\* many characters as the begin marker has (17) and no complete begin marker.
C32_StateAfterFeed ==
    IF in_tool
    THEN StartsWith(buffer, TOOL_BEGIN) /\ nesting_depth >= 1
    ELSE /\ nesting_depth = 0
         /\ Len(buffer) <= 17
         /\ Len(TOOL_BEGIN) = 17
         /\ Find(buffer, TOOL_BEGIN, 0) = -1

\* C32 witness: a feed call emitted plain text and kept back the last 17
\* characters, which hold no begin marker
C32_Witness ==
    /\ ~flushed
    /\ nfeeds >= 1
    /\ ~in_tool
    /\ Len(buffer) = 17
    /\ events # <<>>
    /\ events[Len(events)].tool_content = None

----------------------------------------------------------------------------
(* Properties of the result status *)

\* the value of "status" in the content of a result message
StatusOf(content) ==
    LET rest == From(content, Len(<<"T","o","o","l"," ","o","u","t","p","u","t",":","\n",
                                    "{","\n"," "," ","\"","s","t","a","t","u","s","\"",":"," ","\"">>))
    IN  Upto(rest, Find(rest, <<"\"">>, 0))

\* C33: Result status.  A dispatch that does not end with the handler
\* returning (decode failure, unknown tool, planning-mode refusal, arguments
\* that do not bind, handler exception) gives a text that starts with the
\* error marker; a handler that returns gives the text it returned.  The
\* rest of the results of the feed is left out exactly when the result text
\* starts with the error marker, and the status logged for a result is error
\* exactly when its text starts with the error marker, success otherwise.
C33_ResultStatus ==
    [][/\ step' = "ExecuteBlock" =>
            LET r == last_dispatch'[1]
                d == parse_mime_tool_call(Head(results).tool_content)
            IN  /\ ~r.raised
                /\ tool_outputs' = Append(tool_outputs, <<Head(results).tool_content, r.result>>)
                /\ r.did \notin {"return", "return_error"} => StartsWith(r.result, ERR_MARK)
                /\ ~d.ok => StartsWith(r.result, ERR_MARK) /\ ~r.called
                /\ (d.ok /\ d.tool_name \notin RegisteredNames) =>
                        StartsWith(r.result, ERR_MARK) /\ ~r.called
                /\ (d.ok /\ planning_mode /\ InSeq(d.tool_name, modifying_tools)) =>
                        StartsWith(r.result, ERR_MARK) /\ ~r.called
                /\ r.did = "raise" => r.called
                /\ r.did = "return" => r.result = HANDLER_TEXT
                /\ r.did = "return_error" => r.result = HANDLER_ERROR_TEXT
                /\ results' = IF StartsWith(r.result, ERR_MARK) THEN <<>> ELSE Tail(results)
       /\ (step' = "EndStream" /\ tool_outputs # <<>>) =>
            /\ Len(messages') = Len(messages) + 2 * Len(tool_outputs)
            /\ \A k \in 1..Len(tool_outputs) :
                  /\ messages'[Len(messages) + 2 * k].content
                        = ToolOutputContent(tool_outputs[k][2])
                  /\ StatusOf(messages'[Len(messages) + 2 * k].content)
                        = IF StartsWith(tool_outputs[k][2], ERR_MARK) THEN ERROR ELSE SUCCESS]_vars

\* C33 witness: two deltas of two blocks each, file_delete and a call of an
\* unknown tool.  In the first the handler returned and the unknown tool was
\* dispatched, in the second the handler returned a text with the error
\* marker and the second block was left out; the log has success, error, error
C33_Witness ==
    /\ step = "EndStream"
    /\ full_response = <<>>
    /\ Len(messages) = 8
    /\ messages[3].content = D_DELETE
    /\ StatusOf(messages[4].content) = SUCCESS
    /\ messages[5].content = D_UNKNOWN
    /\ StatusOf(messages[6].content) = ERROR
    /\ messages[7].content = D_DELETE
    /\ messages[8].content = ToolOutputContent(HANDLER_ERROR_TEXT)
    /\ StatusOf(messages[8].content) = ERROR
    /\ last_dispatch[1].did = "return_error"
    /\ Len(invoked) = 2

----------------------------------------------------------------------------
(* Properties of the chain of follow-up requests *)

\* C34: Termination of a user turn.  A response without a tool call ends the
\* chain: stream_response returns the text of that response.  Nothing else
\* ends it: a response with a tool call is followed by the next request,
\* whose response is read.
C34_TurnTermination ==
    [][/\ (pc = "stream" /\ tool_outputs = <<>>) =>
             pc' = "prompt" /\ step' = "Return" /\ ret' = <<full_response>>
       /\ (pc = "stream" /\ tool_outputs # <<>>) => pc' = "request"
       /\ pc = "request" => pc' = "stream"
       /\ pc' = "prompt" => (pc = "stream" /\ tool_outputs = <<>>)]_vars

----------------------------------------------------------------------------
(* Properties of the session's commands *)

\* C35: At every point of a session, after user turns, /plan, /clear, /undo
\* and context trimming, the first message of the log has role system and
\* holds the system prompt of the planning mode in force, and a dispatch is
\* made with that mode.
C35_SystemPromptFirst ==
    /\ messages # <<>>
    /\ messages[1] = [role |-> "system", content |-> SystemPrompt(planning_mode)]
    /\ step = "ExecuteBlock" => last_dispatch[1].planning_mode = planning_mode

\* C35 witness: /clear in planning mode, after a user turn
C35_Witness ==
    /\ step = "Clear"
    /\ planning_mode
    /\ inputs >= 1
    /\ messages = <<[role |-> "system", content |-> SystemPrompt(TRUE)]>>

----------------------------------------------------------------------------
(* Properties of parameter values *)

\* C36: Interior whitespace.  For parameter values that are not empty, do not
\* begin or end with whitespace and do not contain the boundary identifier,
\* parse_mime_tool_call returns for every parameter exactly its value, the
\* text between the blank line after the Content-Disposition line and the
\* line break before the next boundary marker, interior spaces, tabs and
\* newlines unchanged; tool_name is not among the parameters returned.
C36_InteriorWhitespace ==
    (decoded # <<>> /\ IdNotInCall) =>
        /\ decoded[1].ok
        /\ Len(decoded[1].params) = Len(call.params)
        /\ \A k \in 1..Len(call.params) :
              /\ decoded[1].params[k] = call.params[k]
              /\ decoded[1].params[k][1] # TOOL_NAME
              /\ IsSubstring(<<"\n","\n">> \o decoded[1].params[k][2] \o <<"\n","-","-">> \o call.bid,
                             Encode(call))

\* C36 witness: a value with a blank line and a value with a tab inside
C36_Witness ==
    /\ decoded # <<>>
    /\ decoded[1].ok
    /\ decoded[1].params = << <<P, <<"v","\n","\n","v">> >>, <<Q, <<"v"," ","\t","v">> >> >>

----------------------------------------------------------------------------
(* Termination of feed *)

\* feed(chunk) at the head of its outer loop, the chunk added to the buffer
FeedEntry(p, chunk) ==
    [p |-> [p EXCEPT !.buffer = p.buffer \o chunk], found |-> <<>>,
     at |-> "outer", search_start |-> 0]

\* the iterations of feed from s, at most fuel of them; n counts them
RECURSIVE RunFeed(_, _, _)
RunFeed(s, fuel, n) ==
    IF s.at = "return" \/ fuel = 0
    THEN [s |-> s, iterations |-> n]
    ELSE Once(FeedStep(s), LAMBDA t : RunFeed(t, fuel - 1, n + 1))

\* a number of iterations that no call with this buffer exceeds: each marker
\* is passed by the inner loop once and opens or closes a block at most once
IterationBound(buf) == 2 * (Count(buf, TOOL_BEGIN) + Count(buf, TOOL_END)) + 2

\* C37: every feed call terminates: from the parser state of any feed call
\* of a run and for its chunk, the loops of feed reach the return within
\* IterationBound iterations, at the state and with the results of the call
C37_FeedTerminates ==
    [][nfeeds' = nfeeds + 1 =>
          Once(FeedEntry(Parser, Slice(text, pos, pos')), LAMBDA s0 :
              Once(RunFeed(s0, IterationBound(s0.p.buffer), 0), LAMBDA r :
                  /\ r.s.at = "return"
                  /\ r.s.p = [buffer |-> buffer', in_tool |-> in_tool',
                              nesting_depth |-> nesting_depth']
                  /\ events' = events \o r.s.found))]_vars

\* a second feed call on a text of a block and the begin of another has
\* closed the first block and waits inside the second
C37_Witness ==
    /\ nfeeds = 2
    /\ ~flushed
    /\ text = TOOL_BEGIN \o TOOL_END \o TOOL_BEGIN
    /\ events = <<[tool_content |-> TOOL_BEGIN \o TOOL_END, text |-> <<>>]>>
    /\ in_tool
    /\ nesting_depth = 1
    /\ buffer = TOOL_BEGIN

----------------------------------------------------------------------------
(* Properties of re-indexing *)

\* the names a query reports for path: the rows of symbols joined to the
\* record of the file (JOIN files f ON s.file_id = f.id)
SymbolsOf(d, path) ==
    LET joined == SelectSeq(d.symbols,
                      LAMBDA s : \E f \in d.files : f.id = s.file_id /\ f.path = path)
    IN  [k \in 1..Len(joined) |-> joined[k].name]

====
